---- MODULE Spec2Model ----
(***************************************************************************)
(* AstroWebMaps: the planetary vector geometry engine (AstroGeometry) and  *)
(* the vector stores built on it (AstroVector, AstroBoundingBox) together  *)
(* with the projection switch of AstroMap.                                 *)
(*                                                                         *)
(* Numbers.  JavaScript doubles are modelled in fixed point.  A longitude  *)
(* or latitude is an integer number of ticks, 16 ticks to the degree (the  *)
(* finest subdivision saturatePointArray produces on whole degrees), and a *)
(* projected coordinate is an integer number of metres.  Quotients are     *)
(* truncated to that resolution.  Sine and cosine are Bhaskara's rational  *)
(* approximation (error below 0.2 percent), which keeps every sign, every  *)
(* zero on the axes and every comparison against the thresholds of the     *)
(* code (60, 2357032) that is not within that error of the threshold.      *)
(*                                                                         *)
(* Geometries.  A WKT string is modelled by the geometry it denotes: a     *)
(* record [type, parts], parts a sequence of point sequences (the rings of *)
(* a POLYGON, the members of a MULTI*, the single point list otherwise).   *)
(* The empty string is EmptyWkt.  Calls into the mapping library (parsing, *)
(* writing, getExtent, transform, getPolygons, splitWith, ...) are         *)
(* modelled by what the method named does on such a geometry.              *)
(***************************************************************************)
EXTENDS Integers, Sequences, FiniteSets, TLC

\* ------------------------------------------------------------------------
\* Fixed point helpers
\* ------------------------------------------------------------------------

Deg(n) == 16 * n

Abs(x) == IF x < 0 THEN -x ELSE x

\* JavaScript division, truncated to the model's resolution.
TruncDiv(a, b) ==
  IF b = 0 THEN 0
  ELSE IF (a >= 0) = (b > 0) THEN Abs(a) \div Abs(b) ELSE -(Abs(a) \div Abs(b))

MinOf(S) == CHOOSE x \in S : \A y \in S : x <= y
MaxOf(S) == CHOOSE x \in S : \A y \in S : x >= y

Range(s) == {s[i] : i \in 1..Len(s)}

RECURSIVE Flatten(_)
Flatten(ss) == IF ss = <<>> THEN <<>> ELSE Head(ss) \o Flatten(Tail(ss))

MapSeq(Op(_), s) == [i \in 1..Len(s) |-> Op(s[i])]

\* ------------------------------------------------------------------------
\* Geometries
\* ------------------------------------------------------------------------

EmptyWkt == [type |-> "", parts |-> <<>>]

Geom(t, ps) == [type |-> t, parts |-> ps]

Pt(lon, lat) == <<Deg(lon), Deg(lat)>>

Point(lon, lat) == Geom("POINT", << <<Pt(lon, lat)>> >>)
LineString(pts) == Geom("LINESTRING", <<pts>>)
Polygon(ring) == Geom("POLYGON", <<ring>>)

AllPoints(g) == Flatten(g.parts)

\* ol geometry.getExtent(): [minx, miny, maxx, maxy]
extentOf(xs, ys) ==
  IF xs = {} THEN <<0, 0, 0, 0>>
  ELSE <<MinOf(xs), MinOf(ys), MaxOf(xs), MaxOf(ys)>>

extentOfPoints(ps) ==
  extentOf({ps[i][1] : i \in 1..Len(ps)}, {ps[i][2] : i \in 1..Len(ps)})

getExtent(g) == extentOfPoints(AllPoints(g))

\* ol.extent corner accessors on [minx, miny, maxx, maxy]
getBottomLeft(ex) == <<ex[1], ex[2]>>
getBottomRight(ex) == <<ex[3], ex[2]>>
getTopRight(ex) == <<ex[3], ex[4]>>
getWidth(ex) == ex[3] - ex[1]

extractGeometryType(g) == g.type

\* geometry.transform: the point transform applied to every vertex
transformGeometry(T(_), g) ==
  Geom(g.type, [i \in 1..Len(g.parts) |-> MapSeq(T, g.parts[i])])

\* getPolygons / getLineStrings / getPoints of a multi geometry
getChildren(g, childType) ==
  [i \in 1..Len(g.parts) |-> Geom(childType, <<g.parts[i]>>)]

\* ------------------------------------------------------------------------
\* AstroGeometry: point transforms
\* ------------------------------------------------------------------------

\* Polar radius of the target body in units of 100 m (Mars, 3376.2 km); the
\* code reads it from the target's configuration.
cAxisRadiusHm == 33762

\* sin and cos scaled by 10000; the angle is in half ticks (1/32 degree).
RECURSIVE SinE4(_)
SinE4(x) ==
  IF x < 0 THEN -SinE4(-x)
  ELSE IF x >= 11520 THEN SinE4(x % 11520)
  ELSE IF x > 5760 THEN -SinE4(x - 5760)
  ELSE LET p == x * (5760 - x)
       IN  (4 * p) \div ((41472000 - p) \div 10000)

CosE4(x) == SinE4(x + 2880)

\* 2R * tan(a) in units of 100 m, a in half ticks; saturates far outside the
\* polar map (at 20000 km) where the double would grow without bound.
Saturated(k) == IF k > 200000 THEN 200000 ELSE IF k < 0 THEN 0 ELSE k

TanRadius100(s, c) ==
  IF c <= 0 THEN 200000 ELSE Saturated(TruncDiv(2 * cAxisRadiusHm * s, c))

PolarRadius100(a) == TanRadius100(SinE4(a), CosE4(a))

\* the point at distance k (in units of 100 m) from the pole on the meridian
\* of lonH half ticks; ySign is -1 on the north-polar map, 1 on the south
PolarPoint(k, lonH, ySign) ==
  <<TruncDiv(k * SinE4(lonH), 100), TruncDiv(ySign * (k * CosE4(lonH)), 100)>>

transformLatLonToPolarMeters(point, projection) ==
  IF projection = "north-polar stereographic"
  THEN PolarPoint(PolarRadius100(1440 - point[2]), 2 * point[1], -1)
  ELSE PolarPoint(PolarRadius100(1440 + point[2]), 2 * point[1], 1)

\* The inverse is computed on the same grid as the forward transform: the
\* longitude is the tick whose direction is nearest to that of (x, y)
\* (Math.atan2), the latitude the tick whose radius is nearest (Math.atan).

\* a * cos(t) - b * sin(t) for t ticks: positive while t is short of atan(a / b)
LonResidue(a, b, t) == (a * CosE4(2 * t)) - (b * SinE4(2 * t))

RECURSIVE LonSearch(_, _, _, _)
LonSearch(a, b, lo, hi) ==
  IF lo >= hi THEN lo
  ELSE LET mid == (lo + hi + 1) \div 2
       IN  IF LonResidue(a, b, mid) >= 0
           THEN LonSearch(a, b, mid, hi)
           ELSE LonSearch(a, b, lo, mid - 1)

\* atan(a / b) in ticks, for a, b >= 0
QuadrantAngle(a, b) ==
  LET big == IF a > b THEN a ELSE b
      sc == (big \div 20000) + 1
      as == a \div sc
      bs == b \div sc
      t == LonSearch(as, bs, 0, Deg(90))
  IN  IF t < Deg(90) /\ Abs(LonResidue(as, bs, t + 1)) < Abs(LonResidue(as, bs, t))
      THEN t + 1 ELSE t

\* Math.atan2(u, v) in ticks of a degree, in 0..360; atan2(0, -0) is 180
Atan2Lon(u, v) ==
  IF u = 0 /\ v = 0 THEN 0
  ELSE IF u >= 0 /\ v > 0 THEN QuadrantAngle(u, v)
  ELSE IF u > 0 /\ v <= 0 THEN Deg(90) + QuadrantAngle(-v, u)
  ELSE IF u <= 0 /\ v < 0 THEN Deg(180) + QuadrantAngle(-u, -v)
  ELSE Deg(270) + QuadrantAngle(v, -u)

\* the distance from the pole, along the axis of the larger component, of
\* the image of a point a ticks from the pole
AlongAxis(a, trig) == Abs(TruncDiv(PolarRadius100(a) * trig, 100))

RECURSIVE RadiusSearch(_, _, _, _)
RadiusSearch(target, trig, lo, hi) ==
  IF lo >= hi THEN lo
  ELSE LET mid == (lo + hi) \div 2
       IN  IF AlongAxis(mid, trig) >= target
           THEN RadiusSearch(target, trig, lo, mid)
           ELSE RadiusSearch(target, trig, mid + 1, hi)

\* of the ticks a - 1 and a, the one whose image is nearer to target
NearerTick(target, trig, a) ==
  IF a > 0 /\ (target - AlongAxis(a - 1, trig)) < (AlongAxis(a, trig) - target)
  THEN a - 1 ELSE a

\* the distance from the pole in ticks, read along the larger component
Colatitude(x, y, s, c) ==
  IF Abs(s) >= Abs(c)
  THEN NearerTick(Abs(x), s, RadiusSearch(Abs(x), s, 0, Deg(180)))
  ELSE NearerTick(Abs(y), c, RadiusSearch(Abs(y), c, 0, Deg(180)))

LatLonAt(x, y, lon, north) ==
  <<lon, IF north THEN Deg(90) - Colatitude(x, y, SinE4(2 * lon), CosE4(2 * lon))
         ELSE Colatitude(x, y, SinE4(2 * lon), CosE4(2 * lon)) - Deg(90)>>

\* A variant that reads the longitude of a south-polar point as if the map
\* were the north-polar one.
transformPolarMetersToLatLonNorthOnly(point, projection) ==
  IF projection = "north-polar stereographic"
  THEN LatLonAt(point[1], point[2],
                IF point[1] = 0 /\ point[2] = 0 THEN Deg(180)
                ELSE Atan2Lon(point[1], -point[2]), TRUE)
  ELSE LatLonAt(point[1], point[2],
                IF point[1] = 0 /\ point[2] = 0 THEN Deg(180)
                ELSE Atan2Lon(point[1], -point[2]), FALSE)

transformPolarMetersToLatLon(point, projection) ==
  IF projection = "north-polar stereographic"
  THEN LatLonAt(point[1], point[2],
                IF point[1] = 0 /\ point[2] = 0 THEN Deg(180)
                ELSE Atan2Lon(point[1], -point[2]), TRUE)
  ELSE LatLonAt(point[1], point[2],
                IF point[1] = 0 /\ point[2] = 0 THEN 0
                ELSE Atan2Lon(point[1], point[2]), FALSE)

fromPolar(g, projection) ==
  LET T(p) == transformPolarMetersToLatLon(p, projection)
  IN  transformGeometry(T, g)

transformDatelineShift(point) == <<point[1] + Deg(360), point[2]>>

\* A variant whose inverse transform leaves the point where it is.
transformDatelineNoUnShift(point) == point

transformDatelineUnShift(point) == <<point[1] - Deg(360), point[2]>>

RECURSIVE DanglerLon(_)
DanglerLon(x) ==
  IF x < 0 THEN DanglerLon(x + Deg(360))
  ELSE IF x > Deg(360) THEN DanglerLon(x - Deg(360))
  ELSE x

\* A variant that folds 360 itself onto 0 (the half-open range).
transformDanglersHalfOpen(point) == <<point[1] % Deg(360), point[2]>>

transformDanglers(point) == <<DanglerLon(point[1]), point[2]>>

undangle(g) == transformGeometry(transformDanglers, g)

\* geometry.transform('EPSG:4326', 'EPSG:32661' | 'EPSG:32761')
toPolar(g, projection) ==
  LET T(p) == transformLatLonToPolarMeters(p, projection)
  IN  transformGeometry(T, g)

\* ------------------------------------------------------------------------
\* AstroGeometry.crossesDateline
\* ------------------------------------------------------------------------

\* The bounds rule applied to a POLYGON or LINESTRING in cylindrical.
boundsRule(g) ==
  LET ex == getExtent(g)
      brX == getBottomRight(ex)[1]
      blX == getBottomLeft(ex)[1]
      maxX == IF brX >= blX THEN brX ELSE blX
      minX == IF brX >= blX THEN blX ELSE brX
  IN  (maxX > Deg(360) /\ minX < Deg(360)) \/ (minX < 0 /\ maxX > 0)

\* dateline.intersectsExtent(exP), the dateline being the segment from the
\* pole (0, 0) to the edge of the polar map.
datelineIntersectsExtent(exP, projection) ==
  LET ys == IF projection = "north-polar stereographic"
            THEN <<-2357032, 0>> ELSE <<0, 2357032>>
  IN  /\ exP[1] <= 0 /\ 0 <= exP[3]
      /\ exP[2] <= ys[2] /\ ys[1] <= exP[4]

crossesDateline(g, projection) ==
  IF projection = "cylindrical"
  THEN LET wktPrefix == extractGeometryType(g)
       IN  IF wktPrefix \in {"POLYGON", "LINESTRING"}
           THEN boundsRule(g)
           ELSE IF wktPrefix = "MULTIPOLYGON"
           THEN LET polys == getChildren(g, "POLYGON")
                    idx == 1..Len(polys)
                IN  \/ \E i \in idx : boundsRule(polys[i])
                    \/ /\ \E i \in idx : getBottomLeft(getExtent(polys[i]))[1] = 0
                       /\ \E i \in idx : getBottomRight(getExtent(polys[i]))[1] = Deg(360)
           ELSE FALSE
  ELSE datelineIntersectsExtent(getExtent(toPolar(g, projection)), projection)

\* ------------------------------------------------------------------------
\* AstroGeometry.splitOnDateline
\* ------------------------------------------------------------------------

\* Latitude at which the edge (lon, lat) -> (nextLon, nextLat) meets the seam.
seamLat(lon, lat, nextLon, nextLat, projection) ==
  IF projection # "cylindrical"
  THEN LET num == ((nextLon - lon) * (lat - Deg(90))) - ((nextLat - lat) * lon)
           den == -(Deg(180) * (nextLon - lon))
           equationLat == TruncDiv(num, TruncDiv(den, 1000))
       IN  lat + TruncDiv(equationLat * (nextLat - lat), 1000)
  ELSE IF lon > nextLon
       THEN lat + TruncDiv((nextLat - lat) * (Deg(360) - lon),
                           (Deg(360) + nextLon) - lon)
       ELSE lat + TruncDiv((nextLat - lat) * (Deg(360) - (Deg(360) + lon)),
                           nextLon - (Deg(360) + lon))

\* A variant that joins the corner points in one order whichever way the
\* crossing edge runs.
pollLatLonOneWay(goingUp, projection) ==
  LET y == IF projection = "north-polar stereographic" THEN Deg(90) ELSE -Deg(90)
  IN  << <<0, y>>, <<Deg(360), y>> >>

\* The pole-adjacent corner points joined in when only one edge crosses.
pollLatLon(goingUp, projection) ==
  LET y == IF projection = "north-polar stereographic" THEN Deg(90) ELSE -Deg(90)
  IN  IF goingUp THEN << <<0, y>>, <<Deg(360), y>> >>
                 ELSE << <<Deg(360), y>>, <<0, y>> >>

\* Two consecutive vertices at a pole whose longitudes jump over the seam.
poleSeamJump(lon, lat, nextLon, nextLat) ==
  /\ (lat = Deg(90) /\ nextLat = Deg(90)) \/ (lat = -Deg(90) /\ nextLat = -Deg(90))
  /\ \/ (lon = Deg(360) /\ nextLon = 0)
     \/ (lon = 0 /\ nextLon = Deg(360))
     \/ (lon = Deg(720) /\ nextLon = Deg(360))
     \/ (lon = 0 /\ nextLon = -Deg(360))

splitStart ==
  [poly |-> << <<>>, <<>> >>, polyNum |-> 1, polyRingPoint |-> << <<>>, <<>> >>,
   poll |-> <<>>, datelineCrosses |-> 0, returned |-> FALSE]

\* One pass of the loop over the ring's vertices.
splitStep(st, c, i, projection) ==
  LET lon == c[i][1]
      lat == c[i][2]
      hasNext == i < Len(c)
      nextLon == IF hasNext THEN c[i + 1][1] ELSE 0
      nextLat == IF hasNext THEN c[i + 1][2] ELSE 0
      n == st.polyNum
      other == IF n = 1 THEN 2 ELSE 1
      ring0 == IF i = 1 THEN [st.polyRingPoint EXCEPT ![n] = <<c[i]>>]
               ELSE st.polyRingPoint
  IN  IF hasNext /\ poleSeamJump(lon, lat, nextLon, nextLat)
      THEN [st EXCEPT !.returned = TRUE]
      ELSE IF hasNext /\ ((nextLon - lon) > Deg(180) \/ (nextLon - lon) < -Deg(180))
      THEN LET newLat == seamLat(lon, lat, nextLon, nextLat, projection)
               up == (nextLon - lon) > Deg(180)
               here == IF up THEN 0 ELSE Deg(360)
               there == IF up THEN Deg(360) ELSE 0
           IN  [st EXCEPT
                  !.datelineCrosses = @ + 1,
                  !.poly = [@ EXCEPT ![n] = @ \o <<c[i], <<here, newLat>> >>,
                                     ![other] = @ \o << <<there, newLat>> >>],
                  !.poll = pollLatLon(up, projection),
                  !.polyNum = other,
                  !.polyRingPoint = [ring0 EXCEPT ![other] = << <<there, newLat>> >>]]
      ELSE [st EXCEPT !.poly = [@ EXCEPT ![n] = @ \o <<c[i]>>],
                      !.polyRingPoint = ring0]

RECURSIVE splitWalk(_, _, _, _)
splitWalk(st, c, i, projection) ==
  IF i > Len(c) \/ st.returned THEN st
  ELSE splitWalk(splitStep(st, c, i, projection), c, i + 1, projection)

\* What the POLYGON branch returns once the loop has left st.
splitReturn(wkt, st) ==
  IF st.returned THEN wkt
  ELSE IF st.poly[2] = <<>>
  THEN Geom("MULTIPOLYGON", <<st.poly[1]>>)
  ELSE IF st.datelineCrosses = 1
  THEN Geom("MULTIPOLYGON", <<st.poly[1] \o st.poll \o st.poly[2]>>)
  ELSE Geom("MULTIPOLYGON", <<st.poly[1], st.poly[2] \o st.polyRingPoint[2]>>)

splitUndangled(wkt, projection) ==
  splitReturn(wkt, splitWalk(splitStart, AllPoints(wkt), 1, projection))

splitPolygon(g, projection) == splitUndangled(undangle(g), projection)

\* The 'normalized' linestring: seam jumps are carried beyond 360.
RECURSIVE normalizeLine(_, _, _, _)
normalizeLine(c, i, out, added) ==
  IF i > Len(c) THEN out
  ELSE LET lon == c[i][1]
           lat == c[i][2]
           hasNext == i < Len(c)
           nextLon == IF hasNext THEN c[i + 1][1] ELSE 0
           nextLat == IF hasNext THEN c[i + 1][2] ELSE 0
       IN  IF hasNext /\ ((nextLon - lon) > Deg(180) \/ (nextLon - lon) < -Deg(180))
           THEN IF lon > nextLon
                THEN normalizeLine(c, i + 1,
                       out \o << <<lon, lat>>, <<Deg(360) + nextLon, nextLat>> >>, TRUE)
                ELSE normalizeLine(c, i + 1,
                       out \o << <<Deg(360) + lon, lat>>, <<nextLon, nextLat>> >>, TRUE)
           ELSE normalizeLine(c, i + 1,
                  IF added THEN out ELSE out \o << <<lon, lat>> >>, FALSE)

\* featureGeometry.splitWith(LINESTRING(360 -90, 360 90)): the pieces of the
\* line cut where it meets longitude 360; no piece when it never does.
RECURSIVE splitWith(_, _, _, _)
splitWith(v, j, pieces, cur) ==
  IF j > Len(v) THEN (IF pieces = <<>> THEN <<>> ELSE Append(pieces, cur))
  ELSE LET a == v[j - 1]
           b == v[j]
           s == Deg(360)
       IN  IF (a[1] < s /\ b[1] > s) \/ (a[1] > s /\ b[1] < s)
           THEN LET x == <<s, a[2] + TruncDiv((b[2] - a[2]) * (s - a[1]), b[1] - a[1])>>
                IN  splitWith(v, j + 1, Append(pieces, Append(cur, x)), <<x, b>>)
           ELSE IF b[1] = s /\ a[1] # s /\ j < Len(v)
           THEN splitWith(v, j + 1, Append(pieces, Append(cur, b)), <<b>>)
           ELSE splitWith(v, j + 1, pieces, Append(cur, b))

splitLineString(g, projection) ==
  IF ~crossesDateline(g, projection) THEN g
  ELSE LET normalizedWkt == normalizeLine(AllPoints(g), 1, <<>>, FALSE)
       IN  Geom("MULTILINESTRING",
                splitWith(normalizedWkt, 2, <<>>, <<normalizedWkt[1]>>))

splitSingle(g, projection) ==
  IF extractGeometryType(g) = "POLYGON" THEN splitPolygon(g, projection)
  ELSE IF extractGeometryType(g) = "LINESTRING" THEN splitLineString(g, projection)
  ELSE g

\* The loop over the members of a MULTI*; childComponents is declared outside
\* the loop and only its first entry is overwritten when a member comes back
\* unsplit as a single geometry.
componentsOf(splitGeo, childComponents) ==
  IF splitGeo.type \in {"POLYGON", "LINESTRING"}
  THEN IF childComponents = <<>> THEN <<splitGeo.parts[1]>>
       ELSE [childComponents EXCEPT ![1] = splitGeo.parts[1]]
  ELSE splitGeo.parts

RECURSIVE splitMulti(_, _, _, _, _)
splitMultiNext(children, i, projection, childComponents, newGeometry) ==
  splitMulti(children, i + 1, projection, childComponents,
             newGeometry \o childComponents)

splitMulti(children, i, projection, childComponents, newGeometry) ==
  IF i > Len(children) THEN newGeometry
  ELSE splitMultiNext(children, i, projection,
                      componentsOf(splitSingle(children[i], projection),
                                   childComponents),
                      newGeometry)

\* What a caller is left with when the call throws a TypeError.
TypeError == [type |-> "TypeError", parts |-> <<>>]

\* The multi branch asks the geometry for getPolygons() whatever its type: a
\* MULTILINESTRING has no such method and the call throws.
splitOnDateline(g, projection) ==
  IF extractGeometryType(g) = "MULTIPOLYGON"
  THEN Geom("MULTIPOLYGON",
            splitMulti(getChildren(g, "POLYGON"), 1, projection, <<>>, <<>>))
  ELSE IF extractGeometryType(g) = "MULTILINESTRING"
  THEN TypeError
  ELSE splitSingle(g, projection)

\* ------------------------------------------------------------------------
\* AstroGeometry.datelineShift
\* ------------------------------------------------------------------------

RECURSIVE shiftedChildren(_)
shiftedChildren(parts) ==
  IF parts = <<>> THEN <<>>
  ELSE << Head(parts),
          MapSeq(transformDatelineShift, Head(parts)),
          MapSeq(transformDatelineUnShift, Head(parts)) >>
       \o shiftedChildren(Tail(parts))

datelineShift(g) ==
  LET wktPrefix == extractGeometryType(g)
      family == IF wktPrefix \in {"POLYGON", "MULTIPOLYGON"} THEN "MULTIPOLYGON"
                ELSE IF wktPrefix \in {"LINESTRING", "MULTILINESTRING"}
                THEN "MULTILINESTRING" ELSE "MULTIPOINT"
  IN  Geom(family, shiftedChildren(g.parts))

\* ------------------------------------------------------------------------
\* AstroGeometry.warpWkt / saturatePointArray
\* ------------------------------------------------------------------------

Half(x) == TruncDiv(x, 2)

MidPt(p, q) == <<Half(p[1] + q[1]), Half(p[2] + q[2])>>

\* The 16 output points of one edge a -> b (b itself excluded).
saturateEighths(a, b, mid, q, qqq, e, eee, eeeee, eeeeeee) ==
  << a, MidPt(a, e), e, MidPt(q, e), q, MidPt(q, eee), eee, MidPt(mid, eee),
     mid, MidPt(mid, eeeee), eeeee, MidPt(qqq, eeeee), qqq, MidPt(qqq, eeeeeee),
     eeeeeee, MidPt(b, eeeeeee) >>

saturateQuarters(a, b, mid, q, qqq) ==
  saturateEighths(a, b, mid, q, qqq,
                  MidPt(a, q), MidPt(mid, q), MidPt(mid, qqq), MidPt(b, qqq))

saturateHalves(a, b, mid) == saturateQuarters(a, b, mid, MidPt(a, mid), MidPt(b, mid))

saturateEdge(a, b) == saturateHalves(a, b, MidPt(a, b))

\* A variant that skips, besides duplicates, only an edge that runs along
\* the meridian 0 or along the meridian 360.
skipPointOnMeridian(a, b) ==
  \/ (a[1] = b[1] /\ a[2] = b[2])
  \/ (a[1] = b[1] /\ a[1] \in {0, Deg(360)})

skipPoint(a, b) ==
  \/ (a[1] = b[1] /\ a[2] = b[2])
  \/ (a[1] \in {0, Deg(360)} /\ b[1] \in {0, Deg(360)})

RECURSIVE saturateFrom(_, _)
saturateFrom(pointArray, i) ==
  IF i >= Len(pointArray) THEN <<pointArray[i]>>
  ELSE (IF skipPoint(pointArray[i], pointArray[i + 1]) THEN <<pointArray[i]>>
        ELSE saturateEdge(pointArray[i], pointArray[i + 1]))
       \o saturateFrom(pointArray, i + 1)

saturatePointArray(pointArray) ==
  IF pointArray = <<>> THEN <<>> ELSE saturateFrom(pointArray, 1)

warpPoints(points) ==
  IF Len(points) <= 16 THEN saturatePointArray(points) ELSE points

\* The MULTILINESTRING branch parses with OpenLayers.Format.WKT and then calls
\* getGeometry() on what read() returns: the name OpenLayers is not defined
\* beside ol, and where it is, the feature read() returns has no getGeometry.
\* The call throws before anything is returned.
\* The text warpWkt hands back for a polygon of several rings and at most 16
\* points: the points are cut out of the WKT at the commas, so the last point
\* of a ring keeps its ')' and the first of the next its '('; Number() of
\* those is NaN, the points interpolated next to them are written 'NaN NaN',
\* and the text returned is not WKT.  Nothing is thrown.
NotWkt == [type |-> "NotWkt", parts |-> <<>>]

warpWkt(g) ==
  LET wktPrefix == extractGeometryType(g)
  IN  IF wktPrefix \in {"POINT", "MULTIPOINT"} THEN g
      ELSE IF wktPrefix = "POLYGON" /\ Len(g.parts) > 1
      THEN (IF Len(AllPoints(g)) <= 16 THEN NotWkt ELSE g)
      ELSE IF wktPrefix \in {"POLYGON", "LINESTRING"}
      THEN Geom(wktPrefix, <<warpPoints(AllPoints(g))>>)
      ELSE IF wktPrefix = "MULTIPOLYGON"
      THEN Geom(wktPrefix, MapSeq(warpPoints, g.parts))
      ELSE IF wktPrefix = "MULTILINESTRING"
      THEN TypeError
      ELSE g

\* ------------------------------------------------------------------------
\* AstroVector: isDrawable and draw
\* ------------------------------------------------------------------------

\* A feature's geometry is held in the units it was drawn in: ticks of a
\* degree, or metres of the polar map.  The literal 60 of isDrawable is
\* compared with the raw number either way.
Sixty(units) == IF units = "m" THEN 60 ELSE Deg(60)

\* isDrawable with the cap's edge let in (>= for >).
isDrawableEdge(geometry, units, projection) ==
  LET ex == getExtent(geometry)
  IN  IF projection = "cylindrical" THEN TRUE
      ELSE IF projection = "north-polar stereographic"
      THEN getBottomRight(ex)[2] >= Sixty(units)
      ELSE IF projection = "south-polar stereographic"
      THEN getTopRight(ex)[2] <= -Sixty(units)
      ELSE FALSE

isDrawable(geometry, units, projection) ==
  LET ex == getExtent(geometry)
  IN  IF projection = "cylindrical" THEN TRUE
      ELSE IF projection = "north-polar stereographic"
      THEN getBottomRight(ex)[2] > Sixty(units)
      ELSE IF projection = "south-polar stereographic"
      THEN getTopRight(ex)[2] < -Sixty(units)
      ELSE FALSE

\* format.writeGeometry(geometry, {decimals: 2}): rounding to the hundredth
\* moves a coordinate by less than the model's resolution.
writeDecimals2(g) == g

\* the test of draw without its clause for a geometry wholly right of 360
needsUndangleLeftOnly(g) ==
  LET extent == getExtent(g)
      brX == getBottomRight(extent)[1]
      blX == getBottomLeft(extent)[1]
      exWidth == getWidth(extent)
  IN  \/ exWidth > Deg(360)
      \/ (brX < 0 /\ blX < 0)

needsUndangle(g) ==
  LET extent == getExtent(g)
      brX == getBottomRight(extent)[1]
      blX == getBottomLeft(extent)[1]
      exWidth == getWidth(extent)
  IN  \/ exWidth > Deg(360)
      \/ (brX > Deg(360) /\ blX > Deg(360))
      \/ (brX < 0 /\ blX < 0)

\* The state record draw() builds for wktString; fid names the feature
\* object it creates.
\* The vectorState draw() returns, its feature holding drawWKT in units.
vectorStateOf(drawWKT, searchWKT, splitWKT, color, id, center, shift, units, fid) ==
  [drawWKT |-> drawWKT,
   searchWKT |-> searchWKT,
   splitWKT |-> splitWKT,
   color |-> color, id |-> id, center |-> center, datelineShift |-> shift,
   vectorFeature |-> [fid |-> fid, geometry |-> drawWKT, units |-> units],
   index |-> <<>>]

\* The cylindrical branch, wkt being wktString after the undangle test.
drawCylindrical(wktString, wkt, color, id, center, shift, fid) ==
  vectorStateOf(IF shift THEN datelineShift(wkt) ELSE wktString,
                wkt,
                IF crossesDateline(wkt, "cylindrical")
                THEN splitOnDateline(wkt, "cylindrical") ELSE EmptyWkt,
                color, id, center, shift, "deg", fid)

\* The polar branch from the warp on: the split geometry is warped if there
\* is one, the lat/lon geometry otherwise.
drawWarped(wktLatLon, crossing, splitWKT, color, id, center, shift, projection, fid) ==
  vectorStateOf(writeDecimals2(toPolar(warpWkt(IF crossing THEN splitWKT
                                               ELSE wktLatLon), projection)),
                wktLatLon, splitWKT, color, id, center, shift, "m", fid)

\* The polar branch; crossing is crossesDateline(wktString, projection).
drawPolar(wktLatLon, crossing, color, id, center, shift, projection, fid) ==
  drawWarped(wktLatLon, crossing,
             IF crossing THEN splitOnDateline(wktLatLon, projection) ELSE EmptyWkt,
             color, id, center, shift, projection, fid)

draw(wktString, color, id, center, shift, projection, fid) ==
  IF projection = "cylindrical"
  THEN drawCylindrical(wktString,
                       IF needsUndangle(wktString) THEN undangle(wktString)
                       ELSE wktString,
                       color, id, center, shift, fid)
  ELSE drawPolar(writeDecimals2(wktString), crossesDateline(wktString, projection),
                 color, id, center, shift, projection, fid)

\* ------------------------------------------------------------------------
\* State
\* ------------------------------------------------------------------------

VARIABLES
  projection,      \* AstroMap.projection
  hasNorthPolar,   \* AstroMap.hasNorthPolar
  hasSouthPolar,   \* AstroMap.hasSouthPolar
  multiVectorEdit, \* AstroControls.multiVectorEdit
  storedVectors,   \* AstroVector.storedVectors of the drawer
  layer,           \* the features on the drawer's layer (by identity)
  savedIndex,      \* AstroVector.savedIndex
  nextFid,         \* the identity the next feature object gets
  form,            \* the page's form fields the bounding box drawer fills
  inWkt,           \* geometry functions: the argument
  outVal           \* geometry functions: the value returned

vars == <<projection, hasNorthPolar, hasSouthPolar, multiVectorEdit, storedVectors, layer,
          savedIndex, nextFid, form, inWkt, outVal>>
mapVars == <<projection, hasNorthPolar, hasSouthPolar, multiVectorEdit>>
geomVars == <<inWkt, outVal>>

Projections == {"cylindrical", "north-polar stereographic", "south-polar stereographic"}

\* A slot of storedVectors: a state record, null, or a hole of the array.
Null == [kind |-> "null"]
Hole == [kind |-> "hole"]
IsState(slot) == slot.kind = "state"
StateOf(vectorState) == [kind |-> "state"] @@ vectorState
LiveSlots(sv) == {i \in 1..Len(sv) : IsState(sv[i])}
StoredFids(sv) == {sv[i].vectorFeature.fid : i \in LiveSlots(sv)}

Returned(op, value) == [op |-> op, value |-> value]
\* The form fields, all empty: the WKT fields and the four corner fields.
NoForm == [wkt |-> EmptyWkt, datelineWkt |-> EmptyWkt,
           topLeftLon |-> <<>>, topLeftLat |-> <<>>,
           botRightLon |-> <<>>, botRightLat |-> <<>>]

\* Bounds
MaxStored == 2
MaxFeatures == 3

\* The geometries the page hands to the drawer.
PointOnSeam == Point(0, 80)
DanglingBox == Polygon(<<Pt(-10, 10), Pt(10, 10), Pt(10, 20), Pt(-10, 20), Pt(-10, 10)>>)
FarBox == Polygon(<<Pt(370, 70), Pt(380, 70), Pt(380, 80), Pt(370, 80), Pt(370, 70)>>)
InputWkts == {PointOnSeam, DanglingBox, FarBox}
EditWkts == {Polygon(<<Pt(100, 70), Pt(120, 70), Pt(120, 80), Pt(100, 70)>>)}
Colors == {"red"}
Ids == {"a"}

\* ------------------------------------------------------------------------
\* AstroVector: the store
\* ------------------------------------------------------------------------

\* vectorState.index = storedVectors.length; storedVectors.push(vectorState)
pushStored(sv, vectorState) ==
  Append(sv, StateOf([vectorState EXCEPT !.index = <<Len(sv)>>]))

\* removal that closes the gap, as Array.splice would
unstoreSplice(sv, index) ==
  IF index + 1 > Len(sv) THEN sv
  ELSE SubSeq(sv, 1, index) \o SubSeq(sv, index + 2, Len(sv))

\* storedVectors[index] = null; an index past the end leaves holes before it
unstore(sv, index) ==
  LET len == IF index + 1 > Len(sv) THEN index + 1 ELSE Len(sv)
  IN  [i \in 1..len |->
         IF i = index + 1 THEN Null
         ELSE IF i <= Len(sv) THEN sv[i] ELSE Hole]

\* a removeAndUnstoreAll that clears the layer and leaves the store as it is
unstoreNone(sv) == sv

\* this.storedVectors = []
unstoreAll(sv) == <<>>

\* storedVectors[index] != null
notNull(sv, index) == index >= 0 /\ index < Len(sv) /\ IsState(sv[index + 1])

getVectorIndex(sv, fid) ==
  LET hits == {i \in LiveSlots(sv) : sv[i].vectorFeature.fid = fid}
  IN  IF hits = {} THEN -1 ELSE MinOf(hits) - 1

\* The loop of redraw from slot i on: the store and the layer it leaves.
RECURSIVE redrawFrom(_, _, _, _, _)
redrawFrom(sv, lyr, fid, i, proj) ==
  IF i > Len(sv) THEN [storedVectors |-> sv, layer |-> lyr, nextFid |-> fid]
  ELSE IF ~IsState(sv[i]) THEN redrawFrom(sv, lyr, fid, i + 1, proj)
  ELSE LET currentVector == sv[i]
           currentGeo == currentVector.vectorFeature.geometry
       IN  IF isDrawable(currentGeo, currentVector.vectorFeature.units, proj)
           THEN LET vectorState == draw(currentVector.searchWKT, currentVector.color,
                                        currentVector.id, currentVector.center,
                                        currentVector.datelineShift, proj, fid)
                IN  redrawFrom([sv EXCEPT ![i] = StateOf(vectorState)],
                               lyr \cup {fid}, fid + 1, i + 1, proj)
           ELSE redrawFrom(sv, lyr, fid, i + 1, proj)

redraw(sv, lyr, fid, proj) == redrawFrom(sv, lyr, fid, 1, proj)

Init ==
  /\ projection = "cylindrical"
  /\ hasNorthPolar \in BOOLEAN
  /\ hasSouthPolar \in BOOLEAN
  /\ multiVectorEdit = FALSE
  /\ storedVectors = <<>>
  /\ layer = {}
  /\ savedIndex = -1
  /\ nextFid = 1
  /\ form = NoForm
  /\ inWkt = EmptyWkt
  /\ outVal = Returned("", FALSE)

drawAndStore(wktString, color, id, center, shift) ==
  /\ Len(storedVectors) < MaxStored
  /\ nextFid <= MaxFeatures
  /\ LET vectorState == draw(wktString, color, id, center, shift, projection, nextFid)
     IN  /\ storedVectors' = pushStored(storedVectors, vectorState)
         /\ layer' = layer \cup {nextFid}
  /\ nextFid' = nextFid + 1
  /\ UNCHANGED <<mapVars, savedIndex, form, geomVars>>

removeAndUnstore(index) ==
  /\ layer' = IF notNull(storedVectors, index)
              THEN layer \ {storedVectors[index + 1].vectorFeature.fid}
              ELSE layer
  /\ storedVectors' = unstore(storedVectors, index)
  /\ UNCHANGED <<mapVars, savedIndex, nextFid, form, geomVars>>

removeAndUnstoreAll ==
  /\ layer' = {}
  /\ storedVectors' = unstoreAll(storedVectors)
  /\ UNCHANGED <<mapVars, savedIndex, nextFid, form, geomVars>>

Redraw ==
  /\ nextFid + Cardinality(LiveSlots(storedVectors)) <= MaxFeatures + 1
  /\ \E after \in {redraw(storedVectors, layer, nextFid, projection)} :
       /\ storedVectors' = after.storedVectors
       /\ layer' = after.layer
       /\ nextFid' = after.nextFid
  /\ UNCHANGED <<mapVars, savedIndex, form, geomVars>>

polarAvailable(newProjection) ==
  /\ newProjection = "north-polar stereographic" => hasNorthPolar
  /\ newProjection = "south-polar stereographic" => hasSouthPolar

\* switchProjection: destroy and init build the map anew with empty sources;
\* the drawer is handed the new source by updateLayer, which redraws.
switchProjection(newProjection) ==
  IF ~polarAvailable(newProjection)
  THEN UNCHANGED vars
  ELSE /\ nextFid + Cardinality(LiveSlots(storedVectors)) <= MaxFeatures + 1
       /\ projection' = newProjection
       /\ \E after \in {redraw(storedVectors, {}, nextFid, newProjection)} :
            /\ storedVectors' = after.storedVectors
            /\ layer' = after.layer
            /\ nextFid' = after.nextFid
       /\ UNCHANGED <<hasNorthPolar, hasSouthPolar, multiVectorEdit, savedIndex, form, geomVars>>

beforeVectorFeatureModified(fid) ==
  /\ savedIndex' = getVectorIndex(storedVectors, fid)
  /\ UNCHANGED <<mapVars, storedVectors, layer, nextFid, form, geomVars>>

afterVectorFeatureModified ==
  /\ savedIndex' = -1
  /\ UNCHANGED <<mapVars, storedVectors, layer, nextFid, form, geomVars>>

\* The feature an edit leaves: the geometry e (lat/lon) in the map's units.
editedFeature(fid, e, proj) ==
  IF proj = "cylindrical"
  THEN [fid |-> fid, geometry |-> e, units |-> "deg"]
  ELSE [fid |-> fid, geometry |-> toPolar(e, proj), units |-> "m"]

\* The edit is made on the feature object itself: every record that holds
\* the object sees the new geometry.
editInPlace(sv, feature) ==
  [i \in 1..Len(sv) |->
     IF IsState(sv[i]) /\ sv[i].vectorFeature.fid = feature.fid
     THEN [sv[i] EXCEPT !.vectorFeature = feature]
     ELSE sv[i]]

\* AstroVector.vectorFeatureModified on the store sv
saveModified(sv, index, feature) ==
  IF index = -1 THEN sv
  ELSE IF ~notNull(sv, index) THEN sv   \* TypeError: nothing is written
  ELSE [sv EXCEPT ![index + 1].vectorFeature = feature,
                  ![index + 1].drawWKT = feature.geometry]

vectorFeatureModified(fid, e) ==
  LET feature == editedFeature(fid, e, projection)
  IN  /\ storedVectors' = saveModified(editInPlace(storedVectors, feature), savedIndex, feature)
      /\ UNCHANGED <<mapVars, layer, savedIndex, nextFid, form, geomVars>>

Next ==
  \/ \E w \in InputWkts, color \in Colors, id \in Ids, shift \in BOOLEAN :
       drawAndStore(w, color, id, FALSE, shift)
  \/ \E index \in 0..(MaxStored - 1) : removeAndUnstore(index)
  \/ removeAndUnstoreAll
  \/ Redraw
  \/ \E p \in Projections : switchProjection(p)
  \/ \E fid \in layer : beforeVectorFeatureModified(fid)
  \/ \E fid \in layer, e \in EditWkts : vectorFeatureModified(fid, e)
  \/ afterVectorFeatureModified

Spec == Init /\ [][Next]_vars

\* ------------------------------------------------------------------------
\* The geometry functions on their own: the argument is drawn from a grid
\* of points, two-point lines, rectangles and point pairs, and each function
\* is applied to it under the map's projection.
\* ------------------------------------------------------------------------

GridLons == {-10, 0, 10, 180, 350, 370}
GridLats == {-80, -61, -60, -59, 59, 60, 61, 80}
LatBands == {<<10, 20>>, <<50, 70>>, <<70, 80>>, <<-80, -70>>, <<-70, -50>>}
Rect(a, b, lo, hi) ==
  Polygon(<<Pt(a, lo), Pt(b, lo), Pt(b, hi), Pt(a, hi), Pt(a, lo)>>)
GridPoints == {Point(x, y) : x \in GridLons, y \in GridLats}
GridMultiPoints ==
  {Geom("MULTIPOINT", << <<Pt(0, y)>>, <<Pt(x, y)>> >>) : x \in {10, 350}, y \in {-80, 80}}
GridLines ==
  {LineString(<<Pt(a, 10), Pt(b, 20)>>) : a \in GridLons, b \in GridLons \ {180}}
GridRects ==
  {Rect(ab[1], ab[2], band[1], band[2]) :
     ab \in {ab \in GridLons \X GridLons : ab[1] # ab[2]}, band \in LatBands}
DanglingLons == {-370, -360, -10, 0, 360, 370, 720}
GridDanglers ==
  {LineString(<<Pt(a, 10), Pt(b, 20), Pt(180, -20)>>) : a \in DanglingLons, b \in DanglingLons}
GridMultiPolygons ==
  {Geom("MULTIPOLYGON", << Rect(10, 20, band[1], band[2]).parts[1],
                           Rect(x, 350, band[1], band[2]).parts[1] >>) :
     x \in {180, 340}, band \in {<<10, 20>>, <<70, 80>>}}
\* A line of n vertices, one degree apart, and the ring that closes it.
LongLine(n) == [k \in 1..n |-> Pt(k, 10 + (k % 2))]
LongRing(n) == LongLine(n - 1) \o <<Pt(1, 11)>>
WarpInputs ==
  {LineString(LongLine(n)) : n \in {16, 17}}
    \cup {Polygon(LongRing(n)) : n \in {16, 17}}
    \cup {Rect(0, 360, 70, 80), Rect(350, 360, 10, 20),
          LineString(<<Pt(10, 10), Pt(10, 10), Pt(20, 20)>>),
          LineString(<<Pt(0, 10), Pt(360, 10), Pt(350, 20)>>),
          Geom("MULTIPOLYGON", <<LongRing(17), Rect(10, 20, 70, 80).parts[1]>>),
          Geom("MULTIPOLYGON", <<Rect(10, 20, 70, 80).parts[1], LongRing(16)>>),
          Geom("MULTILINESTRING", << <<Pt(10, 10), Pt(20, 20)>>, LongLine(17) >>)}
\* Rings for the walk of splitOnDateline: a comb whose teeth cross the seam
\* four times, rings around a pole with one crossing edge (walked either
\* way round), and triangles whose crossing edge climbs or falls.
CombRing(lo) ==
  <<Pt(350, lo), Pt(10, lo), Pt(10, lo + 10), Pt(355, lo + 10), Pt(355, lo + 20),
    Pt(10, lo + 20), Pt(10, lo + 30), Pt(350, lo + 30), Pt(350, lo)>>
CapRing(lat) == <<Pt(10, lat), Pt(100, lat), Pt(190, lat), Pt(280, lat), Pt(10, lat)>>
CapRingReversed(lat) == <<Pt(10, lat), Pt(280, lat), Pt(190, lat), Pt(100, lat), Pt(10, lat)>>
SlopedCapRing(s) ==
  <<Pt(350, s * 70), Pt(10, s * 80), Pt(100, s * 75), Pt(190, s * 70), Pt(280, s * 75),
    Pt(350, s * 70)>>
Triangle(a, lo, b, hi) == <<Pt(a, lo), Pt(b, hi), Pt(b, lo), Pt(a, lo)>>
SeamRings ==
  {Polygon(CombRing(lo)) : lo \in {10, 50, -80}}
    \cup {Polygon(CapRing(lat)) : lat \in {80, 70, -80}}
    \cup {Polygon(CapRingReversed(lat)) : lat \in {80, -70}}
    \cup {Polygon(SlopedCapRing(s)) : s \in {1, -1}}
    \cup {Polygon(Triangle(ab[1], lh[1], ab[2], lh[2])) :
            ab \in {<<350, 10>>, <<10, 350>>, <<190, 5>>},
            lh \in {<<45, 85>>, <<60, 90>>, <<-85, -45>>, <<10, 20>>, <<90, 0>>,
                    <<-90, 0>>}}
\* Lines of two and three vertices with one edge over the seam, running
\* either way, the crossing edge first or last.
SeamLines ==
  {LineString(pts) :
     pts \in UNION {{<<Pt(350, y), Pt(10, y + 5)>>,
                     <<Pt(10, y), Pt(350, y + 5)>>,
                     <<Pt(350, y), Pt(10, y + 5), Pt(20, y)>>,
                     <<Pt(340, y), Pt(350, y + 5), Pt(10, y)>>,
                     <<Pt(10, y), Pt(350, y + 5), Pt(340, y)>>,
                     <<Pt(20, y), Pt(10, y + 5), Pt(350, y)>>} : y \in {80, -85}}}
GeomInputs ==
  GridPoints \cup GridMultiPoints \cup GridLines \cup GridRects
    \cup GridDanglers \cup GridMultiPolygons \cup WarpInputs \cup SeamRings
    \cup SeamLines

InitGeom ==
  /\ projection \in Projections
  /\ hasNorthPolar = TRUE
  /\ hasSouthPolar = TRUE
  /\ multiVectorEdit = FALSE
  /\ storedVectors = <<>>
  /\ layer = {}
  /\ savedIndex = -1
  /\ nextFid = 1
  /\ form = NoForm
  /\ inWkt \in GeomInputs
  /\ outVal = Returned("", FALSE)

crossesDatelineCall ==
  /\ outVal' = Returned("crossesDateline", crossesDateline(inWkt, projection))
  /\ UNCHANGED <<mapVars, storedVectors, layer, savedIndex, nextFid, form, inWkt>>

splitOnDatelineCall ==
  /\ outVal' = Returned("splitOnDateline", splitOnDateline(inWkt, projection))
  /\ UNCHANGED <<mapVars, storedVectors, layer, savedIndex, nextFid, form, inWkt>>

isDrawableCall ==
  /\ outVal' = Returned("isDrawable", isDrawable(inWkt, "deg", projection))
  /\ UNCHANGED <<mapVars, storedVectors, layer, savedIndex, nextFid, form, inWkt>>

undangleCall ==
  /\ outVal' = Returned("undangle", undangle(inWkt))
  /\ UNCHANGED <<mapVars, storedVectors, layer, savedIndex, nextFid, form, inWkt>>

datelineShiftCall ==
  /\ outVal' = Returned("datelineShift", datelineShift(inWkt))
  /\ UNCHANGED <<mapVars, storedVectors, layer, savedIndex, nextFid, form, inWkt>>

warpWktCall ==
  /\ outVal' = Returned("warpWkt", warpWkt(inWkt))
  /\ UNCHANGED <<mapVars, storedVectors, layer, savedIndex, nextFid, form, inWkt>>

\* The 'normalized' line the LINESTRING branch of splitOnDateline has built
\* when it hands it to splitWith.
normalizedWktCall ==
  /\ extractGeometryType(inWkt) = "LINESTRING"
  /\ crossesDateline(inWkt, projection)
  /\ outVal' = Returned("normalizedWkt",
                        LineString(normalizeLine(AllPoints(inWkt), 1, <<>>, FALSE)))
  /\ UNCHANGED <<mapVars, storedVectors, layer, savedIndex, nextFid, form, inWkt>>

NextGeom ==
  \/ normalizedWktCall
  \/ crossesDatelineCall
  \/ splitOnDatelineCall
  \/ isDrawableCall
  \/ undangleCall
  \/ datelineShiftCall
  \/ warpWktCall

SpecGeom == InitGeom /\ [][NextGeom]_vars

\* ------------------------------------------------------------------------
\* The polar transforms: a point in degrees taken to the metres of a polar
\* map and back
\* ------------------------------------------------------------------------

\* Latitudes counted from the pole of the map, as far as 140 degrees away
\* from it: beyond that the image lies outside the 20000 km PolarRadius100
\* represents.
PoleDistances == {0, 1, 15, 30, 45, 60, 90, 120, 140}
PolarLons == {0, 1, 45, 90, 135, 180, 225, 270, 315, 359}

PolarPoints(proj) ==
  {Point(lon, IF proj = "north-polar stereographic" THEN 90 - d ELSE d - 90) :
     lon \in PolarLons, d \in PoleDistances}

InitPolar ==
  /\ projection \in Projections \ {"cylindrical"}
  /\ hasNorthPolar = TRUE
  /\ hasSouthPolar = TRUE
  /\ multiVectorEdit = FALSE
  /\ storedVectors = <<>>
  /\ layer = {}
  /\ savedIndex = -1
  /\ nextFid = 1
  /\ form = NoForm
  /\ inWkt \in PolarPoints(projection)
  /\ outVal = Returned("", FALSE)

transformLatLonToPolarMetersCall ==
  /\ outVal.op = ""
  /\ outVal' = Returned("transformLatLonToPolarMeters", toPolar(inWkt, projection))
  /\ UNCHANGED <<mapVars, storedVectors, layer, savedIndex, nextFid, form, inWkt>>

transformPolarMetersToLatLonCall ==
  /\ outVal.op = "transformLatLonToPolarMeters"
  /\ outVal' = Returned("transformPolarMetersToLatLon", fromPolar(outVal.value, projection))
  /\ UNCHANGED <<mapVars, storedVectors, layer, savedIndex, nextFid, form, inWkt>>

NextPolar ==
  \/ transformLatLonToPolarMetersCall
  \/ transformPolarMetersToLatLonCall

SpecPolar == InitPolar /\ [][NextPolar]_vars

\* ------------------------------------------------------------------------
\* Polygons with a hole: warpWkt and splitOnDateline applied to a polygon of
\* two rings
\* ------------------------------------------------------------------------

\* The rectangle a..b x lo..hi with the hole c..d x (lo+5)..(hi-5).
Holed(a, b, c, d, lo, hi) ==
  Geom("POLYGON", << Rect(a, b, lo, hi).parts[1], Rect(c, d, lo + 5, hi - 5).parts[1] >>)

HoledInputs ==
  {Holed(ab[1], ab[2], cd[1], cd[2], band[1], band[2]) :
     ab \in {<<340, 20>>, <<10, 50>>, <<330, 350>>},
     cd \in {<<345, 350>>, <<15, 20>>, <<335, 15>>},
     band \in {<<10, 30>>, <<65, 85>>}}
    \cup {Geom("POLYGON", <<LongRing(17), Rect(3, 5, 10, 11).parts[1]>>)}

InitHoles ==
  /\ projection \in Projections
  /\ hasNorthPolar = TRUE
  /\ hasSouthPolar = TRUE
  /\ multiVectorEdit = FALSE
  /\ storedVectors = <<>>
  /\ layer = {}
  /\ savedIndex = -1
  /\ nextFid = 1
  /\ form = NoForm
  /\ inWkt \in HoledInputs
  /\ outVal = Returned("", FALSE)

NextHoles ==
  \/ warpWktCall
  \/ splitOnDatelineCall

SpecHoles == InitHoles /\ [][NextHoles]_vars

\* ------------------------------------------------------------------------
\* Properties of the geometry functions (SpecGeom)
\* ------------------------------------------------------------------------

Lons(g) == {pt[1] : pt \in Range(AllPoints(g))}
Lats(g) == {pt[2] : pt \in Range(AllPoints(g))}
Multi(type) == IF type = "POLYGON" THEN "MULTIPOLYGON" ELSE "MULTILINESTRING"

\* C7: in the cylindrical projection splitOnDateline leaves a polygon or
\* linestring that crossesDateline reports as not crossing in one piece: the
\* result has the argument's vertices in a single component, as the geometry
\* itself or as a MULTI* of length one.
C7_NoSplitWithoutCrossing ==
  (/\ outVal.op = "splitOnDateline"
   /\ projection = "cylindrical"
   /\ inWkt.type \in {"POLYGON", "LINESTRING"}
   /\ ~crossesDateline(inWkt, "cylindrical"))
  => /\ outVal.value.type \in {inWkt.type, Multi(inWkt.type)}
     /\ outVal.value.parts = inWkt.parts

\* A two-point line inside 0..360 whose longitudes are more than 180 apart:
\* it runs over the 0/360 seam.
JumpsSeam(g) ==
  /\ g.type = "LINESTRING"
  /\ Len(g.parts[1]) = 2
  /\ Lons(g) \subseteq Deg(1)..Deg(359)
  /\ Abs(g.parts[1][1][1] - g.parts[1][2][1]) > Deg(180)

\* Latitude of the line p -> q at the seam, by linear interpolation along
\* the short way round.
InterpolatedSeamLat(p, q) ==
  LET toSeam == IF p[1] > q[1] THEN Deg(360) - p[1] ELSE p[1]
      span == Deg(360) - Abs(p[1] - q[1])
  IN  p[2] + TruncDiv((q[2] - p[2]) * toSeam, span)

\* C8: a cylindrical linestring that jumps over the 0/360 seam, such as
\* LINESTRING(350 10, 10 20), is reported as crossing, and splitOnDateline
\* returns a MULTILINESTRING of two components, the first ending and the
\* second starting on longitude 0 or 360 at the interpolated latitude (15
\* for the example).
C8_SeamJumpLineIsSplit ==
  (projection = "cylindrical" /\ JumpsSeam(inWkt))
  => /\ outVal.op = "crossesDateline" => outVal.value = TRUE
     /\ outVal.op = "splitOnDateline" =>
          /\ outVal.value.type = "MULTILINESTRING"
          /\ Len(outVal.value.parts) = 2
          /\ LET first == outVal.value.parts[1]
                 second == outVal.value.parts[2]
                 seam == InterpolatedSeamLat(inWkt.parts[1][1], inWkt.parts[1][2])
             IN  /\ first[Len(first)][1] \in {0, Deg(360)}
                 /\ second[1][1] \in {0, Deg(360)}
                 /\ first[Len(first)][2] = seam
                 /\ second[1][2] = seam

\* C9: crossesDateline returns false for every POINT and MULTIPOINT, in
\* each of the three projections, points on the dateline included.
C9_PointsNeverCross ==
  (outVal.op = "crossesDateline" /\ inWkt.type \in {"POINT", "MULTIPOINT"})
  => outVal.value = FALSE

\* C10 as the specification states it: isDrawable is true in cylindrical; in
\* north-polar exactly when the greatest latitude is above 60; in
\* south-polar exactly when the least latitude is below -60.
C10_AnyPartInsideCap ==
  outVal.op = "isDrawable"
  => outVal.value =
       CASE projection = "cylindrical" -> TRUE
         [] projection = "north-polar stereographic" -> MaxOf(Lats(inWkt)) > Deg(60)
         [] projection = "south-polar stereographic" -> MinOf(Lats(inWkt)) < -Deg(60)

\* C10, amended: isDrawable is true in cylindrical; in north-polar exactly
\* when every latitude of the geometry is above 60 (its least latitude is);
\* in south-polar exactly when every latitude is below -60.
C10_WhollyInsideCap ==
  outVal.op = "isDrawable"
  => outVal.value =
       CASE projection = "cylindrical" -> TRUE
         [] projection = "north-polar stereographic" -> \A y \in Lats(inWkt) : y > Deg(60)
         [] projection = "south-polar stereographic" -> \A y \in Lats(inWkt) : y < -Deg(60)

\* A rectangle from 50 to 70 degrees north asked of the north-polar map:
\* part of it is inside the cap, and it is not drawable.
C10_Witness ==
  /\ outVal.op = "isDrawable"
  /\ projection = "north-polar stereographic"
  /\ MinOf(Lats(inWkt)) = Deg(50)
  /\ MaxOf(Lats(inWkt)) = Deg(70)
  /\ outVal.value = FALSE

\* Same geometry type, same number of components, same number of vertices in
\* each component, and the same latitude at every position.
SameShapeAndLats(a, b) ==
  /\ a.type = b.type
  /\ Len(a.parts) = Len(b.parts)
  /\ \A i \in 1..Len(a.parts) :
       /\ Len(a.parts[i]) = Len(b.parts[i])
       /\ \A j \in 1..Len(a.parts[i]) : a.parts[i][j][2] = b.parts[i][j][2]

C12_ThreeCopiesPerChild ==
  outVal.op = "datelineShift"
  => LET n == Len(inWkt.parts)
         out == outVal.value
     IN  /\ out.type = CASE inWkt.type \in {"POLYGON", "MULTIPOLYGON"} -> "MULTIPOLYGON"
                          [] inWkt.type \in {"LINESTRING", "MULTILINESTRING"} -> "MULTILINESTRING"
                          [] inWkt.type \in {"POINT", "MULTIPOINT"} -> "MULTIPOINT"
         /\ Len(out.parts) = 3 * n
         /\ \A i \in 1..n :
              LET child == inWkt.parts[i]
              IN  /\ out.parts[3 * i - 2] = child
                  /\ \A k \in {1, 2} :
                       /\ Len(out.parts[3 * i - 2 + k]) = Len(child)
                       /\ \A j \in 1..Len(child) :
                            /\ out.parts[3 * i - 2 + k][j][2] = child[j][2]
                            /\ out.parts[3 * i - 2 + k][j][1] =
                                 child[j][1] + (IF k = 1 THEN Deg(360) ELSE -Deg(360))

\* datelineShift of a MULTIPOLYGON of two rings: six rings come back, the
\* fourth being the second ring itself and the sixth its copy 360 to the west.
C12_Witness ==
  /\ outVal.op = "datelineShift"
  /\ inWkt.type = "MULTIPOLYGON"
  /\ Len(inWkt.parts) = 2
  /\ Len(outVal.value.parts) = 6
  /\ outVal.value.parts[4] = inWkt.parts[2]
  /\ outVal.value.parts[6][1][1] = inWkt.parts[2][1][1] - Deg(360)

\* The start vertex of the edge a -> b and the 15 vertices at 1/16 .. 15/16
\* of the straight lon/lat edge.
SixteenthsOf(a, b) ==
  [k \in 1..16 |-> << a[1] + ((k - 1) * (b[1] - a[1])) \div 16,
                      a[2] + ((k - 1) * (b[2] - a[2])) \div 16 >>]

\* The edge is left as it is: a duplicate point; an edge along the meridian
\* 0 or 360; and, when bothEnds is set, any edge with each end on longitude 0
\* or 360 (the edge from 0 to 360 included).
EdgeLeftAlone(a, b, bothEnds) ==
  \/ a = b
  \/ (a[1] = b[1] /\ a[1] \in {0, Deg(360)})
  \/ (bothEnds /\ a[1] \in {0, Deg(360)} /\ b[1] \in {0, Deg(360)})

RECURSIVE DensifiedFrom(_, _, _)
DensifiedFrom(points, i, bothEnds) ==
  IF i >= Len(points) THEN <<points[i]>>
  ELSE (IF EdgeLeftAlone(points[i], points[i + 1], bothEnds) THEN <<points[i]>>
        ELSE SixteenthsOf(points[i], points[i + 1]))
       \o DensifiedFrom(points, i + 1, bothEnds)

\* A closed ring of four distinct corners.
IsSquareRing(points) ==
  /\ Len(points) = 5
  /\ points[1] = points[5]
  /\ Cardinality({points[k] : k \in 1..4}) = 4

\* The rings and lines of at most 16 vertices that warpWkt hands to
\* saturatePointArray, as pairs of the input and the output component.
DensifiedPairs ==
  IF outVal.op # "warpWkt" \/ outVal.value = TypeError THEN {}
  ELSE IF inWkt.type \in {"POLYGON", "LINESTRING", "MULTIPOLYGON"}
  THEN {<<inWkt.parts[i], outVal.value.parts[i]>> :
          i \in {i \in 1..Len(inWkt.parts) : Len(inWkt.parts[i]) <= 16}}
  ELSE {}

\* C14 as the specification states it: of a ring or line of at most 16
\* vertices, every edge that is neither a duplicate point nor lying on the
\* 0/360 meridian comes out as 16 vertices, its start and the 15 vertices at
\* 1/16 .. 15/16 in order; a skipped edge as its start vertex alone; the last
\* vertex closes the output.  A closed square ring none of whose edges is
\* skipped comes out as 64 vertices and the closing one.
C14_SixteenPerEdgeOffMeridian ==
  \A pair \in DensifiedPairs :
    /\ pair[2] = DensifiedFrom(pair[1], 1, FALSE)
    /\ (/\ IsSquareRing(pair[1])
        /\ \A k \in 1..4 : ~EdgeLeftAlone(pair[1][k], pair[1][k + 1], FALSE))
       => (Len(pair[2]) = 65 /\ pair[2][65] = pair[2][1])

\* C14, amended: the edges left alone are the duplicate points and the edges
\* with each end on longitude 0 or 360, the edge from longitude 0 to
\* longitude 360 included; every other edge comes out as 16 vertices.
C14_SixteenPerEdgeUnlessBothEndsOnSeam ==
  \A pair \in DensifiedPairs :
    /\ pair[2] = DensifiedFrom(pair[1], 1, TRUE)
    /\ (/\ IsSquareRing(pair[1])
        /\ \A k \in 1..4 : ~EdgeLeftAlone(pair[1][k], pair[1][k + 1], TRUE))
       => (Len(pair[2]) = 65 /\ pair[2][65] = pair[2][1])

\* LINESTRING(0 10, 360 10, 350 20): the edge from longitude 0 to 360 is
\* left alone and the edge from 360 back to 350 is cut in sixteen.
C14_Witness ==
  /\ outVal.op = "warpWkt"
  /\ inWkt = LineString(<<Pt(0, 10), Pt(360, 10), Pt(350, 20)>>)
  /\ Len(outVal.value.parts[1]) = 18
  /\ outVal.value.parts[1][2] = Pt(360, 10)
  /\ outVal.value.parts[1][3] = <<Deg(360) - 10, Deg(10) + 10>>
  /\ outVal.value.parts[1][18] = Pt(350, 20)

\* C15: warpWkt returns a POINT or MULTIPOINT as it is; of a POLYGON,
\* LINESTRING, MULTIPOLYGON or MULTILINESTRING it returns the same type with
\* the components in their order, each component of more than 16 vertices as
\* it is and each of 16 or fewer densified.
C15_ThresholdPerComponent ==
  outVal.op = "warpWkt"
  => IF inWkt.type \in {"POINT", "MULTIPOINT"}
     THEN outVal.value = inWkt
     ELSE /\ outVal.value.type = inWkt.type
          /\ Len(outVal.value.parts) = Len(inWkt.parts)
          /\ \A i \in 1..Len(inWkt.parts) :
               outVal.value.parts[i] =
                 IF Len(inWkt.parts[i]) > 16 THEN inWkt.parts[i]
                 ELSE DensifiedFrom(inWkt.parts[i], 1, TRUE)

\* The edges of a ring that jump over the seam, as splitOnDateline finds them
\* in the undangled ring.
SeamEdges(ring) ==
  {i \in 1..(Len(ring) - 1) :
     \/ ring[i + 1][1] - ring[i][1] > Deg(180)
     \/ ring[i + 1][1] - ring[i][1] < -Deg(180)}

RingClosed(ring) == Len(ring) >= 4 /\ ring[Len(ring)] = ring[1]

\* The ring is closed, lies within 0..360, is narrower than 180 degrees
\* across the seam and touches neither the seam nor a pole.
SimpleSeamRing(g) ==
  /\ g.type = "POLYGON"
  /\ Len(g.parts) = 1
  /\ RingClosed(g.parts[1])
  /\ \A i \in 1..Len(g.parts[1]) :
       /\ g.parts[1][i][1] > 0
       /\ g.parts[1][i][1] < Deg(360)
       /\ (g.parts[1][i][1] < Deg(90) \/ g.parts[1][i][1] > Deg(270))
       /\ g.parts[1][i][2] > -Deg(90)
       /\ g.parts[1][i][2] < Deg(90)

\* C24: of a simple polygon ring narrower than 180 degrees with two or more
\* edges over the seam, splitOnDateline returns a MULTIPOLYGON of exactly two
\* rings, each ending on its own first vertex.
C24_TwoClosedRings ==
  (/\ outVal.op = "splitOnDateline"
   /\ SimpleSeamRing(inWkt)
   /\ Cardinality(SeamEdges(inWkt.parts[1])) >= 2)
  => /\ outVal.value.type = "MULTIPOLYGON"
     /\ Len(outVal.value.parts) = 2
     /\ RingClosed(outVal.value.parts[1])
     /\ RingClosed(outVal.value.parts[2])

\* The ring splitOnDateline walks: the one ring of the polygon, undangled.
WalkedRing == undangle(inWkt).parts[1]

\* The one edge of the walked ring that jumps over the seam.
TheSeamEdge == CHOOSE i \in SeamEdges(WalkedRing) : TRUE

\* The meridian on which the walk leaves the ring at the edge from a to b.
LeavesAt(a, b) == IF b[1] - a[1] > Deg(180) THEN 0 ELSE Deg(360)

\* C25: of a closed polygon ring with exactly one edge over the seam,
\* splitOnDateline returns a MULTIPOLYGON of one closed ring: the vertices up
\* to the crossing edge, the seam vertex, two corner points at latitude 90 or
\* -90 on the seam vertex's meridian and then on the opposite one, the
\* mirrored seam vertex, and the remaining vertices; every vertex of the
\* ring appears once, in order.
C25_OneRingThroughThePole ==
  (/\ outVal.op = "splitOnDateline"
   /\ inWkt.type = "POLYGON"
   /\ Len(inWkt.parts) = 1
   /\ RingClosed(inWkt.parts[1])
   /\ Cardinality(SeamEdges(WalkedRing)) = 1)
  => /\ outVal.value.type = "MULTIPOLYGON"
     /\ Len(outVal.value.parts) = 1
     /\ RingClosed(outVal.value.parts[1])
     /\ Len(outVal.value.parts[1]) = Len(WalkedRing) + 4
     /\ \E k \in {TheSeamEdge}, out \in {outVal.value.parts[1]} :
          \E here \in {LeavesAt(WalkedRing[k], WalkedRing[k + 1])} :
            /\ SubSeq(out, 1, k) = SubSeq(WalkedRing, 1, k)
            /\ out[k + 1][1] = here
            /\ out[k + 2][1] = here
            /\ out[k + 2][2] \in {Deg(90), -Deg(90)}
            /\ out[k + 3] = <<Deg(360) - here, out[k + 2][2]>>
            /\ out[k + 4] = <<Deg(360) - here, out[k + 1][2]>>
            /\ SubSeq(out, k + 5, Len(out)) = SubSeq(WalkedRing, k + 1, Len(WalkedRing))

\* The ring around the north pole at latitude 80, whose last edge runs from
\* 280 over the seam to 10, has been joined through 360 90 and 0 90.
C25_Witness ==
  /\ outVal.op = "splitOnDateline"
  /\ projection = "north-polar stereographic"
  /\ inWkt = Polygon(CapRing(80))
  /\ outVal.value =
       Geom("MULTIPOLYGON",
            << <<Pt(10, 80), Pt(100, 80), Pt(190, 80), Pt(280, 80), Pt(360, 80),
                 Pt(360, 90), Pt(0, 90), Pt(0, 80), Pt(10, 80)>> >>)

\* The line lies within 0..360 and has an edge whose longitudes jump by more
\* than 180 degrees.
SeamJumpLine(g) ==
  /\ g.type = "LINESTRING"
  /\ \A i \in 1..Len(g.parts[1]) : g.parts[1][i][1] >= 0 /\ g.parts[1][i][1] <= Deg(360)
  /\ SeamEdges(g.parts[1]) # {}

\* C26: the normalized line splitOnDateline builds from a line with an edge
\* over the seam has the vertices of the line, once each and in order, with
\* longitudes carried by whole turns so that no two consecutive longitudes
\* differ by more than 180 degrees.
C26_NormalizedLineDoesNotWrap ==
  (outVal.op = "normalizedWkt" /\ SeamJumpLine(inWkt))
  => /\ Len(outVal.value.parts[1]) = Len(inWkt.parts[1])
     /\ \A i \in 1..Len(inWkt.parts[1]) :
          /\ outVal.value.parts[1][i][2] = inWkt.parts[1][i][2]
          /\ (outVal.value.parts[1][i][1] - inWkt.parts[1][i][1]) % Deg(360) = 0
     /\ SeamEdges(outVal.value.parts[1]) = {}

\* The vertices splitOnDateline has put on the seam: those of its result at
\* longitude 0 or 360, when the ring walked has none there.
SeamVertices == {v \in Range(AllPoints(outVal.value)) : v[1] \in {0, Deg(360)}}

Between(y, a, b) == (a <= y /\ y <= b) \/ (b <= y /\ y <= a)

\* C27: in every projection, the vertices splitOnDateline puts on the seam
\* for an edge that crosses it come in pairs of one latitude, one at
\* longitude 0 and one at 360, and that latitude lies between the latitudes
\* of the edge's two ends, so within -90..90.
C27_SeamLatitudeBetweenEnds ==
  (/\ outVal.op = "splitOnDateline"
   /\ inWkt.type = "POLYGON"
   /\ Len(inWkt.parts) = 1
   /\ RingClosed(inWkt.parts[1])
   /\ \A i \in 1..Len(inWkt.parts[1]) :
        inWkt.parts[1][i][1] > 0 /\ inWkt.parts[1][i][1] < Deg(360)
   /\ Cardinality(SeamEdges(inWkt.parts[1])) = 2)
  => \A v \in SeamVertices :
       /\ <<Deg(360) - v[1], v[2]>> \in SeamVertices
       /\ v[2] >= -Deg(90)
       /\ v[2] <= Deg(90)
       /\ \E k \in SeamEdges(inWkt.parts[1]) :
            Between(v[2], inWkt.parts[1][k][2], inWkt.parts[1][k + 1][2])

\* C21: warpWkt and splitOnDateline reject a polygon of more than one ring
\* with an error: neither returns a geometry for it.
C21_HoledPolygonRejected ==
  (/\ outVal.op \in {"warpWkt", "splitOnDateline"}
   /\ inWkt.type = "POLYGON"
   /\ Len(inWkt.parts) > 1)
  => outVal.value = TypeError

\* ------------------------------------------------------------------------
\* Properties of the vector store (Spec)
\* ------------------------------------------------------------------------

StoreStep ==
  \/ \E w \in InputWkts, color \in Colors, id \in Ids, shift \in BOOLEAN :
       drawAndStore(w, color, id, FALSE, shift)
  \/ \E index \in 0..(MaxStored - 1) : removeAndUnstore(index)

\* C1: a record that carries the index drawAndStore gave it sits in the slot
\* of that index, and a drawAndStore or removeAndUnstore call never shortens
\* the store and leaves every slot as it was, but for the slot removed, which
\* becomes null: survivors are not renumbered and a null slot is not filled
\* again.
C1_SlotsKeepTheirIndex ==
  /\ [](\A i \in LiveSlots(storedVectors) :
          storedVectors[i].index # <<>> => storedVectors[i].index = <<i - 1>>)
  /\ [][StoreStep =>
          /\ Len(storedVectors') >= Len(storedVectors)
          /\ \A i \in 1..Len(storedVectors) :
               \/ storedVectors'[i] = storedVectors[i]
               \/ ~(storedVectors[i] = Null) /\ storedVectors'[i] = Null]_vars

\* A tombstone in front of a record that still answers to its own index.
C1_Witness ==
  \E i, j \in 1..Len(storedVectors) :
    /\ i < j
    /\ storedVectors[i] = Null
    /\ IsState(storedVectors[j])
    /\ storedVectors[j].index = <<j - 1>>

\* C3: on a projection switch a live record is drawn again exactly when its
\* search geometry is drawable in the new projection; otherwise it is left
\* as it was.
C3_RedrawnExactlyWhenDrawable ==
  [][\A p \in Projections :
       (polarAvailable(p) /\ switchProjection(p)) =>
         \A i \in LiveSlots(storedVectors) :
           (storedVectors'[i] # storedVectors[i])
             <=> isDrawable(storedVectors[i].searchWKT, "deg", p)]_vars

\* C4: every live record's drawWKT is what draw derives from the record's
\* searchWKT under the current projection and the record's shift flag.
C4_DrawDerivedFromSearch ==
  \A i \in LiveSlots(storedVectors) :
    LET r == storedVectors[i]
    IN  r.drawWKT = draw(r.searchWKT, r.color, r.id, r.center, r.datelineShift,
                         projection, r.vectorFeature.fid).drawWKT

Straddles(g) ==
  LET lo == MinOf(Lons(g))
      hi == MaxOf(Lons(g))
  IN  /\ hi - lo <= Deg(360)
      /\ (lo < 0 /\ hi >= 0) \/ (hi > Deg(360) /\ lo <= Deg(360))

C6_SplitIsMultiExactlyWhenCrossing ==
  [][(/\ Len(storedVectors') = Len(storedVectors) + 1
      /\ IsState(storedVectors'[Len(storedVectors')]))
     => LET r == storedVectors'[Len(storedVectors')]
        IN  IF crossesDateline(r.searchWKT, projection)
            THEN r.splitWKT.type \in {"MULTIPOLYGON", "MULTILINESTRING"}
            ELSE r.splitWKT = EmptyWkt]_vars

\* C13: in the cylindrical projection the record of a vector that crosses
\* the dateline is drawn in dateline-shifted form, whether or not the
\* datelineShift argument was set: its drawWKT is the datelineShift of the
\* geometry (or of its split form).
C13_CrossingAlwaysShifted ==
  \A i \in LiveSlots(storedVectors) :
    LET r == storedVectors[i]
    IN  (r.vectorFeature.units = "deg" /\ crossesDateline(r.searchWKT, "cylindrical"))
        => r.drawWKT \in {datelineShift(r.searchWKT), datelineShift(r.splitWKT)}

\* ------------------------------------------------------------------------
\* The store alone: drawAndStore, removeAndUnstore and removeAndUnstoreAll
\* ------------------------------------------------------------------------

NextStore ==
  \/ \E w \in InputWkts, color \in Colors, id \in Ids, shift \in BOOLEAN :
       drawAndStore(w, color, id, FALSE, shift)
  \/ \E index \in 0..(MaxStored - 1) : removeAndUnstore(index)
  \/ removeAndUnstoreAll

SpecStore == Init /\ [][NextStore]_vars

\* ------------------------------------------------------------------------
\* The store with everything that draws: drawAndStore, redraw and the
\* projection switch, and the removals (the edit callbacks, which do not
\* call draw, are left out)
\* ------------------------------------------------------------------------

NextDraw ==
  \/ \E w \in InputWkts, color \in Colors, id \in Ids, shift \in BOOLEAN :
       drawAndStore(w, color, id, FALSE, shift)
  \/ \E index \in 0..(MaxStored - 1) : removeAndUnstore(index)
  \/ removeAndUnstoreAll
  \/ Redraw
  \/ \E p \in Projections : switchProjection(p)

SpecDraw == Init /\ [][NextDraw]_vars

\* ------------------------------------------------------------------------
\* AstroBoundingBox: the drawer of the one bounding box, and the form
\* ------------------------------------------------------------------------

IsMulti(g) == g.type \in {"MULTIPOLYGON", "MULTILINESTRING", "MULTIPOINT"}

mergeVectors(wkt1, wkt2) ==
  Geom(IF wkt1.type = "POLYGON" THEN "MULTIPOLYGON" ELSE "MULTILINESTRING",
       IF IsMulti(wkt2) THEN wkt2.parts \o wkt1.parts ELSE wkt1.parts \o wkt2.parts)

\* splitGeometry.transform('EPSG:4326', 'truncate'): two decimals, below the
\* model's resolution
truncateWkt(g) == g

\* The form after populateForm; longitudeDirection is PositiveEast.
populateForm(f, drawWKT, searchWKT, splitWKT, proj) ==
  LET ex == getExtent(searchWKT)
      exSplit == getExtent(splitWKT)
      crossing == splitWKT # EmptyWkt
      maxY == IF crossing /\ proj = "north-polar stereographic"
                 /\ getTopRight(exSplit)[2] = Deg(90)
              THEN Deg(90) ELSE getTopRight(ex)[2]
      minY == IF crossing /\ proj = "south-polar stereographic"
                 /\ getBottomRight(exSplit)[2] = -Deg(90)
              THEN -Deg(90) ELSE getBottomRight(ex)[2]
      maxX == IF crossing THEN getBottomLeft(ex)[1] ELSE getBottomRight(ex)[1]
      minX == IF crossing THEN getBottomRight(ex)[1] ELSE getBottomLeft(ex)[1]
  IN  [wkt |-> searchWKT,
       datelineWkt |-> IF crossing THEN truncateWkt(splitWKT) ELSE f.datelineWkt,
       topLeftLon |-> <<minX>>, topLeftLat |-> <<maxY>>,
       botRightLon |-> <<maxX>>, botRightLat |-> <<minY>>]

\* The form AstroBoundingBox.drawAndStore leaves, f being the form it found
\* and bboxState the record it has just drawn.
formAfterDraw(f, dontResetForm, bboxState, proj) ==
  LET cleared == IF dontResetForm THEN f ELSE NoForm
      withSplit == [cleared EXCEPT !.datelineWkt = bboxState.splitWKT]
  IN  IF dontResetForm THEN withSplit
      ELSE populateForm(withSplit, bboxState.drawWKT, bboxState.searchWKT,
                        bboxState.splitWKT, proj)

\* What a mergeVectors call comes to.  It parses with astroMap.wktParse, a
\* property the library never sets: the call throws (reading 'read' of
\* undefined, or of a parser that has no such method) unless the page has
\* put an OpenLayers 2 parser there, in which case it returns the merged WKT.
mergeOutcomes(wkt1, wkt2) == {TypeError, mergeVectors(wkt1, wkt2)}

\* AstroBoundingBox.drawAndStore, with the form as f.  When the merge throws
\* nothing has been removed or drawn yet.
BBoxDraws(wkt, dontResetForm, f) ==
  /\ nextFid <= MaxFeatures
  /\ \E merged \in (IF multiVectorEdit /\ f.wkt # EmptyWkt /\ ~IsMulti(wkt)
                    THEN mergeOutcomes(wkt, f.wkt) ELSE {wkt}) :
       IF merged = TypeError
       THEN /\ form' = f
            /\ UNCHANGED <<storedVectors, layer, nextFid>>
       ELSE \E bboxState \in {draw(merged, "null", "footprint", TRUE, FALSE,
                                   projection, nextFid)} :
              /\ storedVectors' = pushStored(unstoreAll(storedVectors), bboxState)
              /\ layer' = {nextFid}
              /\ nextFid' = nextFid + 1
              /\ form' = formAfterDraw(f, dontResetForm, bboxState, projection)
  /\ UNCHANGED <<mapVars, savedIndex, inWkt>>

bboxDrawAndStore(wkt, dontResetForm) ==
  /\ BBoxDraws(wkt, dontResetForm, form)
  /\ UNCHANGED outVal

bboxRemoveAndUnstoreAll(dontResetForm) ==
  /\ layer' = {}
  /\ storedVectors' = unstoreAll(storedVectors)
  /\ form' = IF dontResetForm THEN form ELSE NoForm
  /\ UNCHANGED <<mapVars, savedIndex, nextFid, geomVars>>

\* A variant of the pole crosser that leaves the two pole points out.
polePentagonUncapped(tlx, brx, borderY, poleY, midX) ==
  Polygon(<< <<tlx, borderY>>, <<midX, borderY>>, <<brx, borderY>>,
             <<tlx, borderY>> >>)

\* The pole crosser: the border edge with its midpoint, and the two pole points.
polePentagon(tlx, brx, borderY, poleY, midX) ==
  Polygon(<< <<tlx, borderY>>, <<midX, borderY>>, <<brx, borderY>>,
             <<brx, poleY>>, <<tlx, poleY>>, <<tlx, borderY>> >>)

\* A variant of the dateline crosser's rectangle with the two cross points
\* (the source has them commented out) put in.
crossingRectangleWithCrossPoints(tlx, tly, brx, bry) ==
  Polygon(<< <<tlx, tly>>, <<Half(brx + tlx), tly>>, <<brx, tly>>, <<brx, bry>>,
             <<Half(brx + tlx), bry>>, <<tlx, bry>>, <<tlx, tly>> >>)

\* The dateline crosser's rectangle, before it is split.
crossingRectangle(tlx, tly, brx, bry) ==
  Polygon(<< <<tlx, tly>>, <<brx, tly>>, <<brx, bry>>, <<tlx, bry>>, <<tlx, tly>> >>)

\* A variant of the normal case without the two midpoints.
boundsRingWithoutMids(tlx, tly, brx, bry, midX) ==
  Polygon(<< <<tlx, tly>>, <<brx, tly>>, <<brx, bry>>, <<tlx, bry>>, <<tlx, tly>> >>)

\* The normal case: the four corners and the midpoints of the top and the
\* bottom edge.
boundsRing(tlx, tly, brx, bry, midX) ==
  Polygon(<< <<tlx, tly>>, <<midX, tly>>, <<brx, tly>>, <<brx, bry>>,
             <<midX, bry>>, <<tlx, bry>>, <<tlx, tly>> >>)

\* The WKT drawFromBounds builds from the corner fields.
boundsWkt(tlx, tly, brx, bry, proj) ==
  LET atNorth == tly = Deg(90) \/ bry = Deg(90)
      atSouth == tly = -Deg(90) \/ bry = -Deg(90)
      poleY == IF atSouth THEN -Deg(90) ELSE Deg(90)
      borderY == IF atSouth THEN (IF tly < bry THEN bry ELSE tly)
                 ELSE IF atNorth THEN (IF tly > bry THEN bry ELSE tly)
                 ELSE Deg(100)
      midX == Half(tlx + brx)
  IN  IF tlx > brx
      THEN IF borderY # Deg(100)
           THEN polePentagon(tlx, brx, borderY, poleY, midX)
           ELSE splitOnDateline(crossingRectangle(tlx, tly, brx, bry), proj)
      ELSE boundsRing(tlx, tly, brx, bry, midX)

\* The four corner fields after the page's user has typed bounds into them;
\* <<>> when the user has left them as they were.
typeBounds(f, typed) ==
  IF typed = <<>> THEN f
  ELSE [f EXCEPT !.topLeftLon = <<Deg(typed[1])>>, !.topLeftLat = <<Deg(typed[2])>>,
                 !.botRightLon = <<Deg(typed[3])>>, !.botRightLat = <<Deg(typed[4])>>]

\* Number(value) of a form field: the empty string counts as 0.
numberOf(field) == IF field = <<>> THEN 0 ELSE field[1]

\* A variant of the test that finds the bounds missing only when all four
\* fields are empty.
allCornersMissing(f) ==
  /\ f.topLeftLon = <<>> /\ f.topLeftLat = <<>>
  /\ f.botRightLon = <<>> /\ f.botRightLat = <<>>

\* tlx.length < 1 || tly.length < 1 || brx.length < 1 || bry.length < 1
cornerMissing(f) ==
  \/ f.topLeftLon = <<>> \/ f.topLeftLat = <<>>
  \/ f.botRightLon = <<>> \/ f.botRightLat = <<>>

\* drawFromBounds reading the form f; the value returned is left to the caller.
drawFromFields(dontResetForm, f) ==
  IF cornerMissing(f)
  THEN UNCHANGED <<mapVars, storedVectors, layer, savedIndex, nextFid, form, inWkt>>
  ELSE LET tlx == numberOf(f.topLeftLon)
           tly == numberOf(f.topLeftLat)
           brx == numberOf(f.botRightLon)
           bry == numberOf(f.botRightLat)
       IN  \E wkt \in {boundsWkt(tlx, tly, brx, bry, projection)} :
             BBoxDraws(wkt, dontResetForm \/ tlx > brx, [f EXCEPT !.wkt = wkt])

drawFromBounds(dontResetForm, typed) ==
  /\ \E f \in {typeBounds(form, typed)} : drawFromFields(dontResetForm, f)
  /\ UNCHANGED outVal

\* A variant of the test below that lets every box through.
controlNeverRejects(geometry, proj) == FALSE

\* The test of drawFromControl: on a polar map, a box isDrawable refuses.
controlRejects(geometry, proj) ==
  proj # "cylindrical" /\ ~isDrawable(geometry, "deg", proj)

drawFromControl(wkt) ==
  \E geometry \in {IF projection = "cylindrical" THEN wkt
                   ELSE fromPolar(wkt, projection)} :
    IF controlRejects(geometry, projection)
    THEN UNCHANGED vars
    ELSE BBoxDraws(geometry, FALSE, form) /\ UNCHANGED outVal

drawFromForm ==
  IF form.wkt # EmptyWkt
  THEN BBoxDraws(form.wkt, FALSE, form) /\ UNCHANGED outVal
  ELSE UNCHANGED vars

\* What the box control hands over: a shape in the map's coordinates.
controlWkt(e, proj) == IF proj = "cylindrical" THEN e ELSE toPolar(e, proj)

BBoxWkts == {DanglingBox}
ControlWkts == {Rect(100, 120, 70, 80), Rect(100, 120, 10, 20)}
BoundsTyped == {<<10, 80, 30, 70>>, <<350, 20, 10, 10>>, <<350, 90, 10, 80>>}

\* Two pages: one with the north-polar map beside the cylindrical one and
\* boxes drawn one at a time, one with the cylindrical map alone and the
\* multi-box mode switched on.
InitBBox ==
  /\ projection = "cylindrical"
  /\ multiVectorEdit \in BOOLEAN
  /\ hasNorthPolar = ~multiVectorEdit
  /\ hasSouthPolar = FALSE
  /\ storedVectors = <<>>
  /\ layer = {}
  /\ savedIndex = -1
  /\ nextFid = 1
  /\ form = NoForm
  /\ inWkt = EmptyWkt
  /\ outVal = Returned("", FALSE)

NextBBox ==
  \/ \E w \in BBoxWkts, dontResetForm \in BOOLEAN : bboxDrawAndStore(w, dontResetForm)
  \/ \E dontResetForm \in BOOLEAN, typed \in BoundsTyped \cup {<<>>} :
       drawFromBounds(dontResetForm, typed)
  \/ \E e \in ControlWkts : drawFromControl(controlWkt(e, projection))
  \/ drawFromForm
  \/ \E dontResetForm \in BOOLEAN : bboxRemoveAndUnstoreAll(dontResetForm)
  \/ \E p \in Projections : switchProjection(p)

SpecBBox == InitBBox /\ [][NextBBox]_vars

\* ------------------------------------------------------------------------
\* drawFromControl on its own: boxes dragged on the map in each projection,
\* with what the call hands back kept beside the box it was given
\* ------------------------------------------------------------------------

ControlBoxes ==
  {Rect(100, 120, 70, 80), Rect(100, 120, 10, 20), Rect(100, 120, -80, -70),
   Rect(40, 80, 65, 75), Rect(40, 80, 50, 75), Rect(200, 220, -75, -65)}

InitControl ==
  /\ projection = "cylindrical"
  /\ hasNorthPolar = TRUE
  /\ hasSouthPolar = TRUE
  /\ multiVectorEdit = FALSE
  /\ storedVectors = <<>>
  /\ layer = {}
  /\ savedIndex = -1
  /\ nextFid = 1
  /\ form = NoForm
  /\ inWkt = EmptyWkt
  /\ outVal = Returned("", FALSE)

drawFromControlCall(e) ==
  \E geometry \in {IF projection = "cylindrical" THEN e
                   ELSE fromPolar(controlWkt(e, projection), projection)} :
    IF controlRejects(geometry, projection)
    THEN /\ outVal' = Returned("drawFromControl", [given |-> e, returned |-> Null])
         /\ UNCHANGED <<mapVars, storedVectors, layer, savedIndex, nextFid, form, inWkt>>
    ELSE /\ BBoxDraws(geometry, FALSE, form)
         /\ outVal' = Returned("drawFromControl",
                                [given |-> e, returned |-> storedVectors'[1]])

switchProjectionCall(p) ==
  /\ p # projection
  /\ switchProjection(p)

NextControl ==
  \/ \E e \in ControlBoxes : drawFromControlCall(e)
  \/ \E p \in Projections : switchProjectionCall(p)

SpecControl == InitControl /\ [][NextControl]_vars

\* ------------------------------------------------------------------------
\* drawFromBounds on its own: the page's user types into the four corner
\* fields, and drawFromBounds is called on the form as it stands
\* ------------------------------------------------------------------------

Blank == <<>>
Field(n) == <<Deg(n)>>

\* Bounds typed in full: top-left lon, top-left lat, bottom-right lon,
\* bottom-right lat.
TypedBoxes ==
  {<<10, 40, 50, -10>>, <<10, 80, 30, 70>>, <<0, 20, 360, 10>>,
   <<350, 20, 10, 10>>, <<200, 20, 10, 10>>, <<350, 80, 0, 70>>,
   <<350, 90, 10, 80>>, <<350, 80, 10, 90>>, <<350, -80, 10, -90>>}

CornerFields ==
  {<<Field(b[1]), Field(b[2]), Field(b[3]), Field(b[4])>> : b \in TypedBoxes}
    \cup {<<Blank, Field(40), Field(50), Field(-10)>>,
          <<Field(10), Blank, Field(50), Field(-10)>>,
          <<Field(10), Field(40), Blank, Field(-10)>>,
          <<Field(10), Field(40), Field(50), Blank>>}

InitBounds ==
  /\ projection \in Projections
  /\ hasNorthPolar = TRUE
  /\ hasSouthPolar = TRUE
  /\ multiVectorEdit = FALSE
  /\ storedVectors = <<>>
  /\ layer = {}
  /\ savedIndex = -1
  /\ nextFid = 1
  /\ form = NoForm
  /\ inWkt = EmptyWkt
  /\ outVal = Returned("", FALSE)

typeCorners(typed) ==
  /\ form' = [form EXCEPT !.topLeftLon = typed[1], !.topLeftLat = typed[2],
                          !.botRightLon = typed[3], !.botRightLat = typed[4]]
  /\ outVal' = Returned("", FALSE)
  /\ UNCHANGED <<mapVars, storedVectors, layer, savedIndex, nextFid, inWkt>>

\* drawFromBounds with the value it returns.
drawFromBoundsCall(dontResetForm) ==
  /\ drawFromFields(dontResetForm, form)
  /\ outVal' = Returned("drawFromBounds",
                        IF cornerMissing(form) THEN Null ELSE storedVectors'[1])

NextBounds ==
  \/ \E typed \in CornerFields : typeCorners(typed)
  \/ \E dontResetForm \in BOOLEAN : drawFromBoundsCall(dontResetForm)

SpecBounds == InitBounds /\ [][NextBounds]_vars

\* C2: the bounding box store never holds more than one record, and the
\* record it holds is that of the latest draw: it carries the newest
\* feature, and no older box is left in the store.
C2_SingleSlot ==
  /\ Len(storedVectors) <= 1
  /\ Len(storedVectors) = 1 =>
       /\ IsState(storedVectors[1])
       /\ storedVectors[1].vectorFeature.fid = nextFid - 1

\* A second box has been drawn, and it alone is stored and on the layer.
C2_Witness ==
  /\ Len(storedVectors) = 1
  /\ storedVectors[1].vectorFeature.fid = 2
  /\ storedVectors[1].index = <<0>>
  /\ layer = {2}

\* The store holds one MULTIPOLYGON whose members are the polygons stored
\* before the step and the new rectangle.
MergedWith(rectangle) ==
  /\ Len(storedVectors') = 1
  /\ IsState(storedVectors'[1])
  /\ storedVectors'[1].searchWKT.type = "MULTIPOLYGON"
  /\ Range(storedVectors'[1].searchWKT.parts) =
       Range(storedVectors[1].searchWKT.parts) \cup {rectangle.parts[1]}

\* C20: in multi-box mode with a box stored, a new rectangle drawn through
\* drawAndStore, drawFromBounds or drawFromControl leaves one MULTIPOLYGON
\* stored, made of every polygon stored before and the new rectangle.
C20_MergeKeepsEveryBox ==
  [][(multiVectorEdit /\ Len(storedVectors) = 1 /\ IsState(storedVectors[1]))
     => /\ \A w \in BBoxWkts, dontResetForm \in BOOLEAN :
             bboxDrawAndStore(w, dontResetForm) => MergedWith(w)
        /\ \A typed \in BoundsTyped, dontResetForm \in BOOLEAN :
             (typed[1] <= typed[3] /\ drawFromBounds(dontResetForm, typed))
             => MergedWith(boundsRing(Deg(typed[1]), Deg(typed[2]), Deg(typed[3]),
                                      Deg(typed[4]), Half(Deg(typed[1]) + Deg(typed[3]))))
        /\ \A e \in ControlWkts :
             drawFromControl(controlWkt(e, projection)) => MergedWith(e)]_vars

\* ------------------------------------------------------------------------
\* Properties of drawFromBounds (SpecBounds)
\* ------------------------------------------------------------------------

AnyCornerEmpty ==
  \E c \in {"topLeftLon", "topLeftLat", "botRightLon", "botRightLat"} : form[c] = <<>>

\* C16: a drawFromBounds call that finds any of the four corner fields
\* empty returns null, and the stored bounding box, the layer and the form
\* (the WKT field with it) are as they were.
C16_NullWhenCornerMissing ==
  [][\A dontResetForm \in BOOLEAN :
       (AnyCornerEmpty /\ drawFromBoundsCall(dontResetForm))
       => /\ outVal' = Returned("drawFromBounds", Null)
          /\ UNCHANGED <<storedVectors, layer, form, nextFid>>]_vars

\* A box is stored and on the layer, the top-left longitude has been
\* cleared, and drawFromBounds has returned null.
C16_Witness ==
  /\ outVal = Returned("drawFromBounds", Null)
  /\ form.topLeftLon = <<>>
  /\ form.topLeftLat # <<>>
  /\ Len(storedVectors) = 1
  /\ IsState(storedVectors[1])
  /\ layer = {storedVectors[1].vectorFeature.fid}

\* The four corner fields are filled in.
Tlx == numberOf(form.topLeftLon)
Tly == numberOf(form.topLeftLat)
Brx == numberOf(form.botRightLon)
Bry == numberOf(form.botRightLat)

\* C17: from corners with topLeftLon <= botRightLon drawFromBounds builds a
\* closed ring of the four corners and the midpoints of the top and bottom
\* edges, seven positions with the first repeated at the end, whose extent
\* is [topLeftLon, botRightLon] x [botRightLat, topLeftLat].
C17_SixVertexRingWithCornerExtent ==
  [][\A dontResetForm \in BOOLEAN :
       (/\ ~AnyCornerEmpty
        /\ Tlx <= Brx
        /\ Bry <= Tly
        /\ drawFromBoundsCall(dontResetForm))
       => LET built == outVal'.value.searchWKT
              ring == built.parts[1]
              midX == (Tlx + Brx) \div 2
          IN  /\ built.type = "POLYGON"
              /\ Len(built.parts) = 1
              /\ Len(ring) = 7
              /\ ring[7] = ring[1]
              /\ {ring[k] : k \in 1..6} =
                   {<<Tlx, Tly>>, <<Brx, Tly>>, <<Brx, Bry>>, <<Tlx, Bry>>,
                    <<midX, Tly>>, <<midX, Bry>>}
              /\ getExtent(built) = <<Tlx, Bry, Brx, Tly>>]_vars

\* The box (10,40),(50,-10) has been drawn: its extent is [10,50] x [-10,40].
C17_Witness ==
  /\ outVal.op = "drawFromBounds"
  /\ outVal.value # Null
  /\ getExtent(outVal.value.searchWKT) = <<Deg(10), -Deg(10), Deg(50), Deg(40)>>
  /\ Len(outVal.value.searchWKT.parts[1]) = 7

\* The ring is closed and lies within longitudes lo..hi, and its latitudes
\* span exactly bottom..top.
ClosedRingWithin(ring, lo, hi, bottom, top) ==
  /\ Len(ring) >= 4
  /\ ring[Len(ring)] = ring[1]
  /\ \A k \in 1..Len(ring) : lo <= ring[k][1] /\ ring[k][1] <= hi
  /\ MinOf({ring[k][2] : k \in 1..Len(ring)}) = bottom
  /\ MaxOf({ring[k][2] : k \in 1..Len(ring)}) = top

\* C18: from a box with topLeftLon > botRightLon that touches no pole and
\* spans less than 180 degrees of longitude, drawFromBounds draws a
\* MULTIPOLYGON of exactly two closed rings, one within longitudes
\* topLeftLon..360 and one within 0..botRightLon, each spanning the
\* latitudes botRightLat..topLeftLat.
C18_CrossingBoxSplitInTwo ==
  [][\A dontResetForm \in BOOLEAN :
       (/\ ~AnyCornerEmpty
        /\ Tlx > Brx
        /\ {Tly, Bry} \cap {Deg(90), -Deg(90)} = {}
        /\ Bry <= Tly
        /\ (Deg(360) - Tlx) + Brx < Deg(180)
        /\ drawFromBoundsCall(dontResetForm))
       => LET built == outVal'.value.searchWKT
          IN  /\ built.type = "MULTIPOLYGON"
              /\ Len(built.parts) = 2
              /\ \E east, west \in {1, 2} :
                   /\ east # west
                   /\ ClosedRingWithin(built.parts[east], Tlx, Deg(360), Bry, Tly)
                   /\ ClosedRingWithin(built.parts[west], 0, Brx, Bry, Tly)]_vars

\* The box (350,20),(10,10) has been drawn as two rings, 350..360 and 0..10.
C18_Witness ==
  /\ outVal.op = "drawFromBounds"
  /\ outVal.value # Null
  /\ form.topLeftLon = Field(350)
  /\ form.botRightLon = Field(10)
  /\ outVal.value.searchWKT =
       Geom("MULTIPOLYGON",
            << <<Pt(350, 20), Pt(360, 20), Pt(360, 10), Pt(350, 10), Pt(350, 20)>>,
               <<Pt(0, 20), Pt(10, 20), Pt(10, 10), Pt(0, 10), Pt(0, 20)>> >>)

\* Exactly one of the two latitude fields is a pole.
PoleLat == IF Tly \in {Deg(90), -Deg(90)} THEN Tly ELSE Bry
BorderLat == IF Tly \in {Deg(90), -Deg(90)} THEN Bry ELSE Tly
OneEdgeAtPole ==
  Cardinality({c \in {"topLeftLat", "botRightLat"} :
                 numberOf(form[c]) \in {Deg(90), -Deg(90)}}) = 1

\* C19: from a box with topLeftLon > botRightLon and one latitude edge at a
\* pole drawFromBounds draws the single ring (topLeftLon, borderLat), the
\* midpoint at borderLat, (botRightLon, borderLat), (botRightLon, pole),
\* (topLeftLon, pole), (topLeftLon, borderLat), as one POLYGON that has not
\* been split.
C19_PoleCappedPentagon ==
  [][\A dontResetForm \in BOOLEAN :
       (/\ ~AnyCornerEmpty
        /\ Tlx > Brx
        /\ OneEdgeAtPole
        /\ drawFromBoundsCall(dontResetForm))
       => outVal'.value.searchWKT =
            Polygon(<< <<Tlx, BorderLat>>, <<(Tlx + Brx) \div 2, BorderLat>>,
                       <<Brx, BorderLat>>, <<Brx, PoleLat>>, <<Tlx, PoleLat>>,
                       <<Tlx, BorderLat>> >>)]_vars

\* The box (350,80),(10,90), whose bottom-right latitude is the north pole,
\* has been drawn with border latitude 80.
C19_Witness ==
  /\ outVal.op = "drawFromBounds"
  /\ outVal.value # Null
  /\ form.topLeftLat = Field(80)
  /\ form.botRightLat = Field(90)
  /\ outVal.value.searchWKT =
       Polygon(<<Pt(350, 80), Pt(180, 80), Pt(10, 80), Pt(10, 90), Pt(350, 90),
                 Pt(350, 80)>>)

\* ------------------------------------------------------------------------
\* Properties of the store under edits and redraw (Spec, SpecDraw)
\* ------------------------------------------------------------------------

\* C28: whenever vectorFeatureModified runs with savedIndex other than -1,
\* whatever removals and redraws have come between it and
\* beforeVectorFeatureModified, the slot savedIndex names holds a live record
\* and that record's feature is the feature being modified.
C28_SavedIndexNamesTheEditedRecord ==
  [][\A fid \in layer, e \in EditWkts :
       (vectorFeatureModified(fid, e) /\ savedIndex # -1)
       => /\ notNull(storedVectors, savedIndex)
          /\ storedVectors[savedIndex + 1].vectorFeature.fid = fid]_vars

\* C29: redraw on a layer that holds exactly the features of the live
\* records leaves it so: one feature for each live record, the record's
\* own, and none of a record that has been replaced.
C29_RedrawKeepsLayerAndStoreInStep ==
  [][(Redraw /\ layer = StoredFids(storedVectors))
       => layer' = StoredFids(storedVectors')]_vars

\* C30: the index field of every live record is the record's position in
\* storedVectors, also after redraw has put a newly drawn record there.
C30_IndexIsPosition ==
  \A i \in LiveSlots(storedVectors) : storedVectors[i].index = <<i - 1>>

\* ------------------------------------------------------------------------
\* Properties of the polar transforms (SpecPolar)
\* ------------------------------------------------------------------------

PointOf(g) == g.parts[1][1]

\* The point given lies on the pole of the map shown.
AtOwnPole ==
  PointOf(inWkt)[2] = (IF projection = "north-polar stereographic" THEN Deg(90) ELSE -Deg(90))

InsideCap(box, proj) ==
  \A i \in 1..Len(box.parts[1]) :
    IF proj = "north-polar stereographic" THEN box.parts[1][i][2] > Deg(60)
    ELSE box.parts[1][i][2] < -Deg(60)

\* C22: on a polar map drawFromControl given a box that is not drawable in
\* the cap returns null and leaves storedVectors and the layer as they were;
\* given any other box, and always on the cylindrical map, it does not
\* return null.
C22_ControlRejectsOnlyOutsideCap ==
  [][\A e \in ControlBoxes :
       drawFromControlCall(e) =>
         IF projection # "cylindrical" /\ ~InsideCap(e, projection)
         THEN /\ outVal'.value.returned = Null
              /\ UNCHANGED <<storedVectors, layer>>
         ELSE /\ outVal'.value.returned # Null
              /\ storedVectors'[1] = outVal'.value.returned
              /\ layer' # {}]_vars

C22_Witness ==
  /\ outVal.op = "drawFromControl"
  /\ outVal.value.returned = Null
  /\ projection = "south-polar stereographic"
  /\ layer # {}

====
